---------------------------- MODULE Spec2Model ----------------------------
(***************************************************************************)
(* A model of the bitcask-style key-value store of this repository:        *)
(*   - the record codec        (protocol/src/cmd.rs)                       *)
(*   - the record reader       (protocol/src/cmd/reader.rs)                *)
(*   - the storage engine      (kvs/src/kv_store.rs)                       *)
(*   - the compaction policies (src/compaction_policy.rs)                  *)
(*                                                                         *)
(* Files are byte sequences; index offsets are byte offsets; every read    *)
(* of a record goes through the decoder and every write through the        *)
(* encoder.                                                                *)
(***************************************************************************)
EXTENDS Integers, Sequences, FiniteSets, TLC

(***************************************************************************)
(* Bounds of the model.                                                    *)
(***************************************************************************)
\* Number of successful writes (set / remove) explored in one behaviour.
MaxOps == 5
\* Parameter N of the MaxFiles(N) policy the engine is opened with.
MaxFilesN == 1
\* Parameter M of the MaxDeadRecords(M) policy the engine is opened with.
MaxDeadM == 1
\* Longest short key or value, in bytes, the codec is run on.
MaxStrLen == 3
\* Length of the one long key or value the codec is run on.
LongLen == 258
\* Number of encoded records in the source the reader is run on.
MaxRecords == 2
\* Number of connections made to the server in one behaviour.
MaxConns == 3

(***************************************************************************)
(* Bytes, strings and fixed-width big-endian integers.                     *)
(***************************************************************************)
Byte == 0..255

Take(s, n) == SubSeq(s, 1, n)
Drop(s, n) == SubSeq(s, n + 1, Len(s))

\* The same length in little-endian byte order (to_le_bytes).
ToLeBytes(n, w) ==
    [i \in 1..w |-> IF i > 3 THEN 0 ELSE (n \div (256 ^ (i - 1))) % 256]

\* u32::to_be_bytes / u64::to_be_bytes of a length n < 2^24 on w bytes.  The
\* lengths of the model are far below 2^24, so `as u32` / `as u64` do not
\* truncate and the bytes above the low three are zero.
ToBeBytes(n, w) ==
    [i \in 1..w |-> IF w - i >= 3 THEN 0 ELSE (n \div (256 ^ (w - i))) % 256]

\* An unsigned integer read by from_be_bytes is kept as its big-endian digit
\* vector, which is exact for the full u32 / u64 range.  IsSmall says the value
\* is below 2^24; BeInt is its value in that case.
IsSmall(d) == \A i \in 1..(Len(d) - 3) : d[i] = 0
BeInt(d) == d[Len(d) - 2] * 65536 + d[Len(d) - 1] * 256 + d[Len(d)]

\* d as usize > n, for a length n of the model (n < 2^24).
BeGreater(d, n) == ~IsSmall(d) \/ BeInt(d) > n

HEADER_KEY_BYTES == 4
HEADER_VALUE_BYTES == 8
HEADER_BYTES == HEADER_KEY_BYTES + HEADER_VALUE_BYTES

\* u64::MAX and u64::MAX - 1 as digit vectors.
GET_VALUE_LEN == [i \in 1..HEADER_VALUE_BYTES |-> 255]
RM_VALUE_LEN == [i \in 1..HEADER_VALUE_BYTES |-> IF i = HEADER_VALUE_BYTES THEN 254 ELSE 255]

\* std::str::from_utf8: the well-formed byte sequences of the Unicode
\* standard (table 3-7).  Utf8Need is the number of continuation bytes a
\* lead byte asks for (-1: no lead byte); Utf8Second is the range of the
\* byte after the lead.  A sequence is well formed when every lead byte is
\* followed by its continuation bytes and every continuation byte belongs
\* to a lead byte.
IsCont(x) == x >= 128 /\ x <= 191
Utf8Need(c) ==
    IF c <= 127 THEN 0
    ELSE IF c >= 194 /\ c <= 223 THEN 1
    ELSE IF c >= 224 /\ c <= 239 THEN 2
    ELSE IF c >= 240 /\ c <= 244 THEN 3
    ELSE -1
Utf8Second(c, x) ==
    /\ c = 224 => x >= 160
    /\ c = 237 => x <= 159
    /\ c = 240 => x >= 144
    /\ c = 244 => x <= 143
Utf8Lead(b, i) ==
    /\ Utf8Need(b[i]) >= 0
    /\ i + Utf8Need(b[i]) <= Len(b)
    /\ \A m \in 1..Utf8Need(b[i]) : IsCont(b[i + m])
    /\ Utf8Need(b[i]) >= 1 => Utf8Second(b[i], b[i + 1])
Utf8Follows(b, i) ==
    \E j \in 1..3 :
       /\ i - j >= 1
       /\ ~IsCont(b[i - j])
       /\ Utf8Need(b[i - j]) >= j
       /\ \A m \in 1..(j - 1) : IsCont(b[i - m])
IsUtf8(b) ==
    \A i \in 1..Len(b) : IF IsCont(b[i]) THEN Utf8Follows(b, i) ELSE Utf8Lead(b, i)

(***************************************************************************)
(* Cmd: the three records.                                                 *)
(***************************************************************************)
CmdSet(k, v) == [tag |-> "Set", key |-> k, value |-> v]
CmdGet(k) == [tag |-> "Get", key |-> k, value |-> <<>>]
CmdRm(k) == [tag |-> "Rm", key |-> k, value |-> <<>>]

\* Cmd::write with the Rm arm writing the Get sentinel.
CmdWriteRmAsGet(cmd) ==
    IF cmd.tag = "Set"
    THEN [bytes |-> ToBeBytes(Len(cmd.key), HEADER_KEY_BYTES)
                    \o ToBeBytes(Len(cmd.value), HEADER_VALUE_BYTES)
                    \o cmd.key \o cmd.value,
          n |-> HEADER_BYTES + Len(cmd.key) + Len(cmd.value)]
    ELSE [bytes |-> ToBeBytes(Len(cmd.key), HEADER_KEY_BYTES)
                    \o GET_VALUE_LEN \o cmd.key,
          n |-> HEADER_BYTES + Len(cmd.key)]

\* Cmd::write into an always-succeeding writer: the bytes written and the
\* returned count.
CmdWrite(cmd) ==
    CASE cmd.tag = "Set" ->
           [bytes |-> ToBeBytes(Len(cmd.key), HEADER_KEY_BYTES)
                      \o ToBeBytes(Len(cmd.value), HEADER_VALUE_BYTES)
                      \o cmd.key \o cmd.value,
            n |-> HEADER_BYTES + Len(cmd.key) + Len(cmd.value)]
      [] cmd.tag = "Get" ->
           [bytes |-> ToBeBytes(Len(cmd.key), HEADER_KEY_BYTES)
                      \o GET_VALUE_LEN \o cmd.key,
            n |-> HEADER_BYTES + Len(cmd.key)]
      [] cmd.tag = "Rm" ->
           [bytes |-> ToBeBytes(Len(cmd.key), HEADER_KEY_BYTES)
                      \o RM_VALUE_LEN \o cmd.key,
            n |-> HEADER_BYTES + Len(cmd.key)]

\* Cmd::parse_header: (key_len, value_len) as digit vectors.
ParseHeader(header) ==
    [key_len |-> Take(header, HEADER_KEY_BYTES),
     value_len |-> Drop(header, HEADER_KEY_BYTES)]

ParseErr(msg) == [ok |-> FALSE, err |-> msg, cmd |-> CmdGet(<<>>)]
ParseOk(cmd) == [ok |-> TRUE, err |-> "", cmd |-> cmd]

\* parse_body taking the value's bytes to be all that follows the key.
ParseBodyToTheEnd(key_len, value_len, bytes) ==
    IF BeGreater(key_len, Len(bytes)) THEN ParseErr("Insufficient data for key")
    ELSE LET key_bytes == Take(bytes, BeInt(key_len))
             value_bytes == Drop(bytes, BeInt(key_len))
         IN  IF ~IsUtf8(key_bytes) THEN ParseErr("Non-UTF8 key")
             ELSE IF value_len = GET_VALUE_LEN THEN ParseOk(CmdGet(key_bytes))
             ELSE IF value_len = RM_VALUE_LEN THEN ParseOk(CmdRm(key_bytes))
             ELSE IF BeGreater(value_len, Len(value_bytes))
                  THEN ParseErr("Insufficient data for value")
             ELSE IF ~IsUtf8(value_bytes) THEN ParseErr("Non-UTF8 value")
             ELSE ParseOk(CmdSet(key_bytes, value_bytes))

\* Cmd::parse_body.
ParseBody(key_len, value_len, bytes) ==
    IF BeGreater(key_len, Len(bytes)) THEN ParseErr("Insufficient data for key")
    ELSE LET key_bytes == Take(bytes, BeInt(key_len))
             value_bytes == Drop(bytes, BeInt(key_len))
         IN  IF ~IsUtf8(key_bytes) THEN ParseErr("Non-UTF8 key")
             ELSE IF value_len = GET_VALUE_LEN THEN ParseOk(CmdGet(key_bytes))
             ELSE IF value_len = RM_VALUE_LEN THEN ParseOk(CmdRm(key_bytes))
             ELSE IF BeGreater(value_len, Len(value_bytes))
                  THEN ParseErr("Insufficient data for value")
             ELSE LET value == Take(value_bytes, BeInt(value_len))
                  IN  IF ~IsUtf8(value) THEN ParseErr("Non-UTF8 value")
                      ELSE ParseOk(CmdSet(key_bytes, value))


(***************************************************************************)
(* Reader::read_cmd over a source whose remaining bytes are src.           *)
(***************************************************************************)
ReadNone == [kind |-> "None", cmd |-> CmdGet(<<>>), bytes_read |-> 0]
ReadPanic == [kind |-> "Panic", cmd |-> CmdGet(<<>>), bytes_read |-> 0]
ReadErr == [kind |-> "Err", cmd |-> CmdGet(<<>>), bytes_read |-> 0]
ReadSome(cmd, n) == [kind |-> "Some", cmd |-> cmd, bytes_read |-> n]

Min(a, b) == IF a <= b THEN a ELSE b

\* CmdReader's ReadingCmd state: the body bytes read_to_end collects for a
\* header h when `avail` bytes remain in the source: expected_len of them, or
\* all that remain when the source ends first.  (Lengths whose sum overflows
\* usize lie outside the lengths of the model.)
BodyLen(h, avail) ==
    IF h.value_len = GET_VALUE_LEN \/ h.value_len = RM_VALUE_LEN
    THEN IF IsSmall(h.key_len) THEN Min(BeInt(h.key_len), avail) ELSE avail
    ELSE IF IsSmall(h.key_len) /\ IsSmall(h.value_len)
         THEN Min(BeInt(h.key_len) + BeInt(h.value_len), avail)
         ELSE avail

\* read_cmd, lines 169-172: the parsed body p and the bytes read_to_end
\* returned.
ReadParsed(p, bytes_read) ==
    IF p.ok THEN ReadSome(p.cmd, bytes_read) ELSE ReadErr

\* read_cmd, lines 165-170, for the header h and the n body bytes read from
\* rest, the source after the header.
ReadBody(h, rest, n) ==
    ReadParsed(ParseBody(h.key_len, h.value_len, Take(rest, n)), HEADER_BYTES + n)

ReadHeader(h, rest) == ReadBody(h, rest, BodyLen(h, Len(rest)))

\* Reader::read_cmd: Ok(None) on an empty source; split_at(HEADER_BYTES)
\* panics when fewer than HEADER_BYTES bytes were read; otherwise the header
\* and body are parsed.
ReadCmd(src) ==
    IF Len(src) = 0 THEN ReadNone
    ELSE IF Len(src) < HEADER_BYTES THEN ReadPanic
    ELSE ReadHeader(ParseHeader(Take(src, HEADER_BYTES)), Drop(src, HEADER_BYTES))

(***************************************************************************)
(* The storage engine, kvs/src/kv_store.rs.                                *)
(***************************************************************************)
\* The keys and values the operations draw from (UTF-8 strings as bytes):
\* "a", "b"; "", "x".
Keys == {<<97>>, <<98>>}
Values == {<<>>, <<120>>}

\* FILE_SIZE_LIMIT, scaled from 1 MiB to the record sizes of the model
\* (13 and 14 bytes).
FILE_SIZE_LIMIT == 13
\* usize::MAX, the all-ones word.
ACTIVE_FILE_IDX == -1

VARIABLES
    index,             \* KvStore.index: key -> Index
    active_file,       \* KvStore.active_file: LogFile (path, len)
    immutable_files,   \* KvStore.immutable_files: Vec<LogFile>
    dead_data_count,   \* KvStore.dead_data_count
    compaction_policy, \* KvStore.compaction_policy
    disk,              \* the directory KvStore.dir: path -> file contents
    clock,             \* the system clock file_util::file_name reads
    status,            \* "ok", or how the last operation left the process
    latest,            \* history: key -> the last value written and not removed
    last,              \* history: what the last operation was and did
    ops,               \* history: number of successful writes so far
    codec,             \* the record codec run on its own: input, bytes, result
    framer,            \* Reader::read_cmd run on its own over a source of bytes
    wire,              \* the response codec run on its own
    net,               \* the server, its listener, the connections and the clients
    boot,              \* Engine::new_in run on its own over a directory
    query,             \* should_compact run on its own: policy, context, answer
    call               \* the engine operation in progress, step by step

vars == <<index, active_file, immutable_files, dead_data_count,
          compaction_policy, disk, clock, status, latest, last, ops,
          codec, framer, wire, net, boot, query, call>>

Index(file_idx, file_offset) == [file_idx |-> file_idx, file_offset |-> file_offset]
LogFile(path, len) == [path |-> path, len |-> len]

\* file_util::file_name: "<RFC-3339 now>.pingcap"; compactify prefixes "0000-".
\* A name is kept as (prefix?, time); the clock is taken to advance between
\* any two names, and names to sort as their times do.
FileName(now) == [compacted |-> FALSE, ts |-> now]
CompactedFileName(now) == [compacted |-> TRUE, ts |-> now]

\* An order on the timestamps alone, blind to the "0000-" prefix.
PathLessByTime(p, q) == p.ts < q.ts

\* Ord for the paths of one directory: "0000-..." sorts before any year.
PathLess(p, q) ==
    \/ p.compacted /\ ~q.compacted
    \/ p.compacted = q.compacted /\ p.ts < q.ts

MinPath(S) == CHOOSE p \in S : \A q \in S \ {p} : PathLess(p, q)

\* paths.sort_unstable()
RECURSIVE SortPaths(_)
SortPaths(S) ==
    IF S = {} THEN <<>> ELSE <<MinPath(S)>> \o SortPaths(S \ {MinPath(S)})

\* file_util::open_file with create(true): the directory after the open.
OpenFile(d, path) ==
    IF path \in DOMAIN d THEN d
    ELSE [q \in DOMAIN d \cup {path} |-> IF q = path THEN <<>> ELSE d[q]]

\* LogFile::new on a directory in which path exists: len from the metadata.
LogFileNew(d, path) == LogFile(path, Len(d[path]))

\* The engine state as one value.
KV == [index |-> index, active_file |-> active_file,
       immutable_files |-> immutable_files, dead_data_count |-> dead_data_count,
       disk |-> disk, clock |-> clock, fault |-> "none"]

\* HashMap::insert / HashMap::remove
MapInsert(m, k, e) == [x \in DOMAIN m \cup {k} |-> IF x = k THEN e ELSE m[x]]
MapRemove(m, k) == [x \in DOMAIN m \ {k} |-> m[x]]

Hydrated(in_memory_index, dead, fault) ==
    [index |-> in_memory_index, dead_data_count |-> dead, fault |-> fault]

\* hydrate_file, lines 129-135: the index after the record cmd read at
\* file_offset.
HydrateIndex(in_memory_index, cmd, file_idx, file_offset) ==
    IF cmd.tag = "Set"
    THEN MapInsert(in_memory_index, cmd.key, Index(file_idx, file_offset))
    ELSE MapRemove(in_memory_index, cmd.key)

\* KvStore::hydrate_file from file_offset on: the index, the dead count and
\* how the replay ended ("none": clean end of file).  HydrateRead is one turn
\* of the loop, for the result r of read_cmd.
RECURSIVE HydrateFrom(_, _, _, _, _)
RECURSIVE HydrateRead(_, _, _, _, _, _)
HydrateRead(in_memory_index, bytes, file_idx, file_offset, dead, r) ==
    IF r.kind = "None" THEN Hydrated(in_memory_index, dead, "none")
    ELSE IF r.kind = "Err" THEN Hydrated(in_memory_index, dead, "err")
    ELSE IF r.kind = "Panic" THEN Hydrated(in_memory_index, dead, "panic")
    ELSE IF r.cmd.tag = "Get" THEN Hydrated(in_memory_index, dead, "panic")
    ELSE HydrateFrom(HydrateIndex(in_memory_index, r.cmd, file_idx, file_offset),
                     bytes, file_idx, file_offset + r.bytes_read,
                     IF r.cmd.key \in DOMAIN in_memory_index THEN dead + 1 ELSE dead)

HydrateFrom(in_memory_index, bytes, file_idx, file_offset, dead) ==
    HydrateRead(in_memory_index, bytes, file_idx, file_offset, dead,
                ReadCmd(Drop(bytes, file_offset)))

HydrateFile(in_memory_index, bytes, file_idx) ==
    HydrateFrom(in_memory_index, bytes, file_idx, 0, 0)

\* KvStore::hydrate, lines 98-103: the immutable files from the i-th on, in
\* order; h is the replay of the i-th.
RECURSIVE HydrateImmutables(_, _, _, _)
RECURSIVE HydrateImmutable(_, _, _, _)
HydrateImmutable(kv, i, dead, h) ==
    IF h.fault # "none"
    THEN Hydrated(h.index, dead + h.dead_data_count, h.fault)
    ELSE HydrateImmutables(kv, i + 1, h.index, dead + h.dead_data_count)

HydrateImmutables(kv, i, in_memory_index, dead) ==
    IF i > Len(kv.immutable_files)
    THEN Hydrated(in_memory_index, dead, "none")
    ELSE HydrateImmutable(kv, i, dead,
                          HydrateFile(in_memory_index,
                                      kv.disk[kv.immutable_files[i].path], i - 1))

\* The hydration that counts the dead records of the active file too.
HydrateActiveCounted(kv, imm, act) ==
    [kv EXCEPT !.index = act.index,
               !.dead_data_count = act.dead_data_count,
               !.fault = act.fault]

\* KvStore::hydrate, lines 104-110: the active file, after the replay imm of
\* the immutable files; its dead records are not counted.
HydrateActive(kv, imm, act) ==
    [kv EXCEPT !.index = act.index,
               !.dead_data_count = imm.dead_data_count,
               !.fault = act.fault]

HydrateRest(kv, imm) ==
    IF imm.fault # "none"
    THEN HydrateActive(kv, imm, imm)
    ELSE HydrateActive(kv, imm,
                       HydrateFile(imm.index, kv.disk[kv.active_file.path],
                                   ACTIVE_FILE_IDX))

\* KvStore::hydrate
Hydrate(kv) == HydrateRest(kv, HydrateImmutables(kv, 1, kv.index, kv.dead_data_count))

\* open_with_policy, lines 73-92: the files opened, then hydrated.
OpenFiles(d, active_path, rest, now) ==
    Hydrate([index |-> << >>,
             active_file |-> LogFileNew(d, active_path),
             immutable_files |-> [i \in 1..Len(rest) |-> LogFileNew(d, rest[i])],
             dead_data_count |-> 0,
             disk |-> d,
             clock |-> now,
             fault |-> "none"])

\* open_with_policy, lines 68-72: the last of the sorted paths is the active
\* file; a directory without files gets a new one.
OpenSorted(d, now, paths) ==
    IF paths = <<>>
    THEN OpenFiles(OpenFile(d, FileName(now)), FileName(now), <<>>, now + 1)
    ELSE OpenFiles(d, paths[Len(paths)], SubSeq(paths, 1, Len(paths) - 1), now)

\* KvStore::open_with_policy on directory d at time now.
OpenWithPolicy(d, now) == OpenSorted(d, now, SortPaths(DOMAIN d))

(***************************************************************************)
(* Compaction policies, src/compaction_policy.rs.                          *)
(***************************************************************************)
MaxFilePolicy(n) == [kind |-> "MaxFiles", param |-> n]
MaxDeadRecordPolicy(m) == [kind |-> "MaxDeadRecords", param |-> m]
NeverPolicy == [kind |-> "Never", param |-> 0]

CompactionContext(kv) ==
    [open_immutable_files |-> Len(kv.immutable_files),
     dead_commands |-> kv.dead_data_count]

\* should_compact with the thresholds off by one.
ShouldCompactLate(policy, context) ==
    CASE policy.kind = "MaxFiles" -> context.open_immutable_files > policy.param + 1
      [] policy.kind = "MaxDeadRecords" -> context.dead_commands > policy.param + 1
      [] policy.kind = "Never" -> FALSE

\* should_compact that fires at the threshold already.
ShouldCompactAtThreshold(policy, context) ==
    CASE policy.kind = "MaxFiles" -> context.open_immutable_files >= policy.param
      [] policy.kind = "MaxDeadRecords" -> context.dead_commands >= policy.param
      [] policy.kind = "Never" -> FALSE

\* private::CompactionPolicy::should_compact
ShouldCompact(policy, context) ==
    CASE policy.kind = "MaxFiles" -> context.open_immutable_files > policy.param
      [] policy.kind = "MaxDeadRecords" -> context.dead_commands > policy.param
      [] policy.kind = "Never" -> FALSE

(***************************************************************************)
(* get, and the steps of write_cmd.                                        *)
(***************************************************************************)
GetOk(v) == [kind |-> "Some", value |-> v]
GetNone == [kind |-> "None", value |-> <<>>]
GetErr == [kind |-> "Err", value |-> <<>>]
GetPanic == [kind |-> "Panic", value |-> <<>>]

\* The record Reader::read_cmd finds after seeking the file an index entry
\* designates to its offset; indexing past the immutable list panics.
ReadAt(kv, e) ==
    IF e.file_idx = ACTIVE_FILE_IDX
    THEN ReadCmd(Drop(kv.disk[kv.active_file.path], e.file_offset))
    ELSE IF e.file_idx + 1 \in DOMAIN kv.immutable_files
         THEN ReadCmd(Drop(kv.disk[kv.immutable_files[e.file_idx + 1].path],
                           e.file_offset))
         ELSE ReadPanic

\* get, lines 275-285: the result of read_cmd r.
GetRead(r) ==
    IF r.kind = "Err" THEN GetErr
    ELSE IF r.kind # "Some" THEN GetPanic
    ELSE IF r.cmd.tag = "Set" THEN GetOk(r.cmd.value)
    ELSE GetPanic

\* KvsEngine::get
Get(kv, key) ==
    IF key \notin DOMAIN kv.index THEN GetNone ELSE GetRead(ReadAt(kv, kv.index[key]))

\* The append going to the oldest immutable file when there is one.
AppendBytesToOldest(kv, w) ==
    [kv EXCEPT !.disk = [kv.disk EXCEPT ![IF kv.immutable_files = <<>>
                                          THEN kv.active_file.path
                                          ELSE kv.immutable_files[1].path] = @ \o w.bytes],
               !.active_file = LogFile(kv.active_file.path, kv.active_file.len + w.n)]

\* write_cmd, lines 207-211: append the written record w to the active file.
AppendBytes(kv, w) ==
    [kv EXCEPT !.disk = [kv.disk EXCEPT ![kv.active_file.path] = @ \o w.bytes],
               !.active_file = LogFile(kv.active_file.path, kv.active_file.len + w.n)]

AppendCmd(kv, cmd) == AppendBytes(kv, CmdWrite(cmd))

\* The dead count raised for every key that had an entry.
CountsDeadAnyEntry(kv, key) == key \in DOMAIN kv.index

\* write_cmd, lines 224-228: whether the entry the insert replaces counts as
\* a dead record.
CountsDead(kv, key) ==
    key \in DOMAIN kv.index /\ kv.index[key].file_idx # ACTIVE_FILE_IDX

\* The index update with entry().or_insert in place of insert: an entry the
\* key already has is kept.
IndexUpdateKeepsOld(kv, key, file_offset) ==
    IF key \in DOMAIN kv.index THEN kv
    ELSE [kv EXCEPT !.index = MapInsert(kv.index, key, Index(ACTIVE_FILE_IDX, file_offset))]

\* The index update with the offset read after the append, where the record
\* ends, in place of the offset saved before it.
IndexUpdateAtEnd(kv, key, file_offset) ==
    [kv EXCEPT !.index = MapInsert(kv.index, key,
                                   Index(ACTIVE_FILE_IDX, kv.active_file.len)),
               !.dead_data_count = IF CountsDead(kv, key) THEN @ + 1 ELSE @]

\* write_cmd, lines 219-228: point the key at the record just appended, which
\* started at file_offset.
IndexUpdate(kv, key, file_offset) ==
    [kv EXCEPT !.index = MapInsert(kv.index, key, Index(ACTIVE_FILE_IDX, file_offset)),
               !.dead_data_count = IF CountsDead(kv, key) THEN @ + 1 ELSE @]

\* write_cmd, line 231: the roll-over test.
RollOverDue(file_offset) == file_offset > FILE_SIZE_LIMIT

\* The repointing with the length of the immutable list after the push in
\* place of the last slot.
RepointToLen(idx, slot) ==
    [k \in DOMAIN idx |->
        IF idx[k].file_idx = ACTIVE_FILE_IDX
        THEN Index(slot + 1, idx[k].file_offset)
        ELSE idx[k]]

\* write_cmd, lines 239-243: the index entries of the active file move to
\* the last immutable slot.
Repoint(idx, slot) ==
    [k \in DOMAIN idx |->
        IF idx[k].file_idx = ACTIVE_FILE_IDX
        THEN Index(slot, idx[k].file_offset)
        ELSE idx[k]]

\* write_cmd, lines 232-243: a new active file next_file in the directory d
\* that holds it; the old one becomes the last immutable file.
RollOverTo(kv, d, next_file) ==
    [kv EXCEPT !.disk = d,
               !.clock = @ + 1,
               !.active_file = LogFileNew(d, next_file),
               !.immutable_files = Append(@, kv.active_file),
               !.index = Repoint(@, Len(kv.immutable_files))]

RollOver(kv) ==
    RollOverTo(kv, OpenFile(kv.disk, FileName(kv.clock)), FileName(kv.clock))

Compacting(kv, c) == [kv |-> kv, compacted_file |-> c]

\* The copy with the entry left at the start of the compacted file.
CopyRecordAtZero(kv, c, key, w) ==
    Compacting([kv EXCEPT !.disk = [kv.disk EXCEPT ![c.path] = @ \o w.bytes],
                          !.index = [kv.index EXCEPT ![key] = Index(0, 0)]],
               LogFile(c.path, c.len + w.n))

\* compactify, lines 183-190: the record r.cmd, written as w, goes to the end
\* of the compacted file c and the key's entry to slot 0 at that offset.
CopyRecord(kv, c, key, w) ==
    Compacting([kv EXCEPT !.disk = [kv.disk EXCEPT ![c.path] = @ \o w.bytes],
                          !.index = [kv.index EXCEPT ![key] = Index(0, c.len)]],
               LogFile(c.path, c.len + w.n))

\* compactify, lines 168-191: the entries in the order `order` visits them;
\* c is the compacted LogFile.  Stops at the first read that fails.
\* CompactRead is one turn of the loop for the record r read for Head(order);
\* CompactNext continues after it.
RECURSIVE CompactEntries(_, _, _)
RECURSIVE CompactRead(_, _, _, _)
RECURSIVE CompactNext(_, _)
CompactNext(done, order) == CompactEntries(done.kv, done.compacted_file, order)

CompactRead(kv, c, order, r) ==
    IF r.kind = "Err" THEN Compacting([kv EXCEPT !.fault = "err"], c)
    ELSE IF r.kind # "Some" THEN Compacting([kv EXCEPT !.fault = "panic"], c)
    ELSE CompactNext(CopyRecord(kv, c, Head(order), CmdWrite(r.cmd)), Tail(order))

CompactEntries(kv, c, order) ==
    IF order = <<>> THEN Compacting(kv, c)
    ELSE IF kv.index[Head(order)].file_idx = ACTIVE_FILE_IDX
         THEN CompactEntries(kv, c, Tail(order))
         ELSE CompactRead(kv, c, order, ReadAt(kv, kv.index[Head(order)]))

PathsOf(files) == {files[i].path : i \in DOMAIN files}

\* The end of compactify without the reset of the count.
ReplaceImmutablesKeepsCount(kv, c) ==
    [kv EXCEPT !.disk = [q \in DOMAIN kv.disk \ PathsOf(kv.immutable_files) |-> kv.disk[q]],
               !.immutable_files = <<c>>]

\* compactify, lines 192-198: unlink the immutable files, keep the compacted
\* one, reset the count.
ReplaceImmutables(kv, c) ==
    [kv EXCEPT !.disk = [q \in DOMAIN kv.disk \ PathsOf(kv.immutable_files) |-> kv.disk[q]],
               !.immutable_files = <<c>>,
               !.dead_data_count = 0]

CompactDone(done) ==
    IF done.kv.fault # "none" THEN done.kv
    ELSE ReplaceImmutables(done.kv, done.compacted_file)

\* compactify, lines 163-166: the compacted file is created in directory d.
CompactInto(kv, d, compacted_path, order) ==
    CompactDone(CompactEntries([kv EXCEPT !.disk = d, !.clock = @ + 1],
                               LogFileNew(d, compacted_path), order))

\* KvStore::compactify; `order` is the order in which the HashMap yields its
\* keys.
Compactify(kv, order) ==
    CompactInto(kv, OpenFile(kv.disk, CompactedFileName(kv.clock)),
                CompactedFileName(kv.clock), order)

\* The key of a record (write_cmd, lines 213-217).
CmdKey(cmd) == cmd.key

\* write_cmd, lines 231-244.
RollIfDue(kv, file_offset) ==
    IF RollOverDue(file_offset) THEN RollOver(kv) ELSE kv

\* write_cmd up to the policy query: append, index update, roll-over if due.
BeforePolicy(kv, cmd) ==
    RollIfDue(IndexUpdate(AppendCmd(kv, cmd), CmdKey(cmd), kv.active_file.len),
              kv.active_file.len)

\* write_cmd, lines 246-253.
Fires(kv, policy) == ShouldCompact(policy, CompactionContext(kv))

CompactIfDue(kv, policy, order) ==
    IF Fires(kv, policy) THEN Compactify(kv, order) ELSE kv

\* KvStore::write_cmd
WriteCmd(kv, policy, cmd, order) == CompactIfDue(BeforePolicy(kv, cmd), policy, order)

(***************************************************************************)
(* The engine as a state machine: one action per public operation.         *)
(***************************************************************************)
CodecState(stage, cmd, w, parsed) ==
    [stage |-> stage, cmd |-> cmd, bytes |-> w.bytes, n |-> w.n, parsed |-> parsed]
NothingWritten == [bytes |-> <<>>, n |-> 0]
CodecIdle == CodecState("idle", CmdGet(<<>>), NothingWritten, ParseErr(""))

\* The value of a part of the system that a specification leaves out.
Idle == [stage |-> "idle"]

Policies == {MaxFilePolicy(MaxFilesN), MaxDeadRecordPolicy(MaxDeadM), NeverPolicy}

\* The orders in which a HashMap may yield the keys.
Orders ==
    {o \in [1..Cardinality(Keys) -> Keys] : \A i, j \in DOMAIN o : i # j => o[i] # o[j]}
InIndex(kv, k) == k \in DOMAIN kv.index
OrderOf(kv, o) == SelectSeq(o, LAMBDA k : InIndex(kv, k))
Order(cmd, o) == OrderOf(BeforePolicy(KV, cmd), o)

\* What get returns for every key.
View(kv) == [k \in Keys |-> Get(kv, k)]

Install(kv) ==
    /\ index' = kv.index
    /\ active_file' = kv.active_file
    /\ immutable_files' = kv.immutable_files
    /\ dead_data_count' = kv.dead_data_count
    /\ disk' = kv.disk
    /\ clock' = kv.clock

engine == <<index, active_file, immutable_files, dead_data_count, disk, clock>>

RetOk == [kind |-> "Ok", value |-> <<>>]
RetKeyNotFound == [kind |-> "KeyNotFound", value |-> <<>>]
RetOf(kv) ==
    IF kv.fault = "none" THEN RetOk ELSE IF kv.fault = "err" THEN GetErr ELSE GetPanic
StatusOf(ret) == IF ret.kind = "Panic" THEN "panicked" ELSE "ok"

NoView == << >>
Did(op, key, ret, rolled, compacted, before, after) ==
    [op |-> op, key |-> key, ret |-> ret, rolled |-> rolled,
     compacted |-> compacted, before |-> before, after |-> after]

\* What a write_cmd call did, for the history variable: kv3 is the state at
\* the policy query.
DidWriteAt(op, cmd, order, ret, kv3, fired) ==
    Did(op, cmd.key, ret, RollOverDue(active_file.len), fired,
        IF fired THEN View(kv3) ELSE NoView,
        IF fired THEN View(Compactify(kv3, order)) ELSE NoView)

DidWriteFrom(op, cmd, order, ret, kv3) ==
    DidWriteAt(op, cmd, order, ret, kv3, Fires(kv3, compaction_policy))

DidWrite(op, cmd, order, ret) ==
    DidWriteFrom(op, cmd, order, ret, BeforePolicy(KV, cmd))

Finish(op, cmd, order, kv) ==
    /\ Install(kv)
    /\ status' = StatusOf(RetOf(kv))
    /\ last' = DidWrite(op, cmd, order, RetOf(kv))

Init ==
    /\ compaction_policy \in Policies
    /\ index = OpenWithPolicy(<< >>, 0).index
    /\ active_file = OpenWithPolicy(<< >>, 0).active_file
    /\ immutable_files = OpenWithPolicy(<< >>, 0).immutable_files
    /\ dead_data_count = OpenWithPolicy(<< >>, 0).dead_data_count
    /\ disk = OpenWithPolicy(<< >>, 0).disk
    /\ clock = OpenWithPolicy(<< >>, 0).clock
    /\ status = "ok"
    /\ latest = [k \in Keys |-> GetNone]
    /\ last = Did("open", << >>, RetOk, FALSE, FALSE, NoView, NoView)
    /\ ops = 0
    /\ codec = CodecIdle
    /\ framer = Idle
    /\ wire = Idle
    /\ net = Idle
    /\ boot = Idle
    /\ query = Idle
    /\ call = Idle

\* KvsEngine::set
SetCmd(cmd, order) ==
    Finish("set", cmd, order, WriteCmd(KV, compaction_policy, cmd, order))

KvsSet(key, value, o) ==
    /\ status = "ok"
    /\ ops < MaxOps
    /\ SetCmd(CmdSet(key, value), Order(CmdSet(key, value), o))
    /\ latest' = [latest EXCEPT ![key] = GetOk(value)]
    /\ ops' = ops + 1
    /\ UNCHANGED compaction_policy

Set(key, value, o) ==
    /\ KvsSet(key, value, o)
    /\ UNCHANGED <<codec, framer, wire, net, boot, query, call>>

\* KvsEngine::get
GetReturns(key, ret) ==
    /\ status' = StatusOf(ret)
    /\ last' = Did("get", key, ret, FALSE, FALSE, NoView, NoView)

KvsGet(key) ==
    /\ status = "ok"
    /\ GetReturns(key, Get(KV, key))
    /\ UNCHANGED <<engine, compaction_policy, latest, ops>>

GetKey(key) ==
    /\ KvsGet(key)
    /\ UNCHANGED <<codec, framer, wire, net, boot, query, call>>

\* remove without the index.remove that follows write_cmd.
RemovedKeepsEntry(kv, key) == kv

\* remove, lines 303-308: the entry is removed if write_cmd succeeded.
Removed(kv, key) ==
    IF kv.fault = "none" THEN [kv EXCEPT !.index = MapRemove(@, key)] ELSE kv

RemoveCmd(cmd, order) ==
    Finish("remove", cmd, order,
           Removed(WriteCmd(KV, compaction_policy, cmd, order), cmd.key))

\* remove without the test for an absent key: the Rm record is written even
\* when get found nothing.
RemoveFoundWritesAnyway(key, o, found) ==
    IF found.kind \in {"Some", "None"}
    THEN /\ ops < MaxOps
         /\ RemoveCmd(CmdRm(key), Order(CmdRm(key), o))
         /\ latest' = [latest EXCEPT ![key] = GetNone]
         /\ ops' = ops + 1
    ELSE /\ status' = StatusOf(found)
         /\ last' = Did("remove", key, found, FALSE, FALSE, NoView, NoView)
         /\ UNCHANGED <<engine, latest, ops>>

\* remove, lines 300-314, for the result `found` of get.
RemoveFound(key, o, found) ==
    IF found.kind = "Some"
    THEN /\ ops < MaxOps
         /\ RemoveCmd(CmdRm(key), Order(CmdRm(key), o))
         /\ latest' = [latest EXCEPT ![key] = GetNone]
         /\ ops' = ops + 1
    ELSE /\ status' = StatusOf(found)
         /\ last' = Did("remove", key,
                        IF found.kind = "None" THEN RetKeyNotFound ELSE found,
                        FALSE, FALSE, NoView, NoView)
         /\ UNCHANGED <<engine, latest, ops>>

\* KvsEngine::remove
KvsRemove(key, o) ==
    /\ status = "ok"
    /\ RemoveFound(key, o, Get(KV, key))
    /\ UNCHANGED compaction_policy

Remove(key, o) ==
    /\ KvsRemove(key, o)
    /\ UNCHANGED <<codec, framer, wire, net, boot, query, call>>

\* A clean shutdown (the KvStore is dropped) followed by open_with_policy on
\* the same directory with the same policy.
Reopened(kv) ==
    /\ Install(kv)
    /\ status' = IF kv.fault = "none" THEN "ok" ELSE "open_failed"
    /\ last' = Did("reopen", << >>, RetOf(kv), FALSE, FALSE, View(KV), View(kv))

Reopen ==
    /\ Reopened(OpenWithPolicy(disk, clock))
    /\ UNCHANGED <<compaction_policy, latest, ops, codec, framer, wire, net, boot, query, call>>

Next ==
    \/ \E key \in Keys, value \in Values, o \in Orders : Set(key, value, o)
    \/ \E key \in Keys : GetKey(key)
    \/ \E key \in Keys, o \in Orders : Remove(key, o)
    \/ Reopen

Spec == Init /\ [][Next]_vars

(***************************************************************************)
(* The record codec on its own: a record is written, the bytes are parsed. *)
(***************************************************************************)
\* The bytes of "a" and of the two-byte character U+00E9.
Alphabet == {97, 195, 169}
LongStr == [i \in 1..LongLen |-> 97]
ShortStrs == UNION {[1..n -> Alphabet] : n \in 0..MaxStrLen}
\* The strings (&str: valid UTF-8) keys and values are drawn from.
Strs == {b \in ShortStrs : IsUtf8(b)} \cup {LongStr}
Cmds ==
    {CmdSet(k, v) : k \in Strs, v \in Strs}
      \cup {CmdGet(k) : k \in Strs} \cup {CmdRm(k) : k \in Strs}

\* tests::parse (cmd.rs, lines 108-118): parse_header, then parse_body on the
\* rest.
ParseRest(h, rest) == ParseBody(h.key_len, h.value_len, rest)
Parse(bytes) ==
    IF Len(bytes) < HEADER_BYTES THEN ParseErr("Missing proper header")
    ELSE ParseRest(ParseHeader(Take(bytes, HEADER_BYTES)), Drop(bytes, HEADER_BYTES))

InitCodec ==
    /\ compaction_policy = NeverPolicy
    /\ index = OpenWithPolicy(<< >>, 0).index
    /\ active_file = OpenWithPolicy(<< >>, 0).active_file
    /\ immutable_files = OpenWithPolicy(<< >>, 0).immutable_files
    /\ dead_data_count = OpenWithPolicy(<< >>, 0).dead_data_count
    /\ disk = OpenWithPolicy(<< >>, 0).disk
    /\ clock = OpenWithPolicy(<< >>, 0).clock
    /\ status = "ok"
    /\ latest = [k \in Keys |-> GetNone]
    /\ last = Did("open", << >>, RetOk, FALSE, FALSE, NoView, NoView)
    /\ ops = 0
    /\ \E cmd \in Cmds : codec = CodecState("input", cmd, NothingWritten, ParseErr(""))
    /\ framer = Idle
    /\ wire = Idle
    /\ net = Idle
    /\ boot = Idle
    /\ query = Idle
    /\ call = Idle

\* Cmd::write into an empty buffer.
CodecWrite ==
    /\ codec.stage = "input"
    /\ codec' = CodecState("written", codec.cmd, CmdWrite(codec.cmd), codec.parsed)
    /\ UNCHANGED <<engine, compaction_policy, status, latest, last, ops, framer, wire, net, boot, query, call>>

\* parse_header + parse_body on the bytes written.
CodecParse ==
    /\ codec.stage = "written"
    /\ codec' = [codec EXCEPT !.stage = "parsed", !.parsed = Parse(codec.bytes)]
    /\ UNCHANGED <<engine, compaction_policy, status, latest, last, ops, framer, wire, net, boot, query, call>>

NextCodec == CodecWrite \/ CodecParse

SpecCodec == InitCodec /\ [][NextCodec]_vars

(***************************************************************************)
(* Reader::read_cmd over a source that hands out its bytes in reads of any *)
(* size: CmdReader's two states, driven by read_to_end.                    *)
(***************************************************************************)
\* The engine just opened on an empty directory, for the specifications that
\* leave it alone.
EngineAtOpen(policy) ==
    /\ compaction_policy = policy
    /\ index = OpenWithPolicy(<< >>, 0).index
    /\ active_file = OpenWithPolicy(<< >>, 0).active_file
    /\ immutable_files = OpenWithPolicy(<< >>, 0).immutable_files
    /\ dead_data_count = OpenWithPolicy(<< >>, 0).dead_data_count
    /\ disk = OpenWithPolicy(<< >>, 0).disk
    /\ clock = OpenWithPolicy(<< >>, 0).clock
    /\ status = "ok"
    /\ latest = [k \in Keys |-> GetNone]
    /\ last = Did("open", << >>, RetOk, FALSE, FALSE, NoView, NoView)
    /\ ops = 0

kvs == <<engine, compaction_policy, status, latest, last, ops>>

\* The records a source is made of: "a"="x", "a"="", get "a", rm "ab",
\* get "".
FramerCmds ==
    {CmdSet(<<97>>, <<120>>), CmdSet(<<97>>, <<>>), CmdGet(<<97>>),
     CmdRm(<<97, 98>>), CmdGet(<<>>)}

RECURSIVE Concat(_)
Concat(recs) ==
    IF recs = <<>> THEN <<>> ELSE CmdWrite(Head(recs)).bytes \o Concat(Tail(recs))

\* The sources: up to MaxRecords encoded records, whole or cut short.
FramerInputs == UNION {[1..n -> FramerCmds] : n \in 0..MaxRecords}

\* The header with the over-long body length of a reader that counts the
\* header twice.
ExpectedLenWithHeader(h) ==
    IF h.value_len = GET_VALUE_LEN \/ h.value_len = RM_VALUE_LEN
    THEN HEADER_BYTES + BeInt(h.key_len)
    ELSE HEADER_BYTES + BeInt(h.key_len) + BeInt(h.value_len)

\* CmdReader::read, lines 91-95: total_len for the header h.  (Lengths of
\* 2^24 and more lie outside the sources of the model.)
ExpectedLen(h) ==
    IF h.value_len = GET_VALUE_LEN \/ h.value_len = RM_VALUE_LEN
    THEN BeInt(h.key_len)
    ELSE BeInt(h.key_len) + BeInt(h.value_len)

\* read_cmd, lines 161-172, on the bytes read_to_end left in self.buf.
ReadBuf(buf) ==
    IF Len(buf) = 0 THEN ReadNone
    ELSE IF Len(buf) < HEADER_BYTES THEN ReadPanic
    ELSE ReadParsed(ParseRest(ParseHeader(Take(buf, HEADER_BYTES)),
                              Drop(buf, HEADER_BYTES)),
                    Len(buf))

FramerStart(recs, src) ==
    [recs |-> recs, whole |-> src = Concat(recs), src |-> src, stage |-> "idle",
     header_bytes |-> <<>>, expected_len |-> 0, bytes_read |-> 0, buf |-> <<>>,
     at_call |-> <<>>, results |-> <<>>, short |-> FALSE, io |-> FALSE]

InitFramer ==
    /\ EngineAtOpen(NeverPolicy)
    /\ codec = CodecIdle
    /\ wire = Idle
    /\ net = Idle
    /\ boot = Idle
    /\ query = Idle
    /\ call = Idle
    /\ \E recs \in FramerInputs :
          \E cut \in 0..Len(Concat(recs)) :
             framer = FramerStart(recs, Take(Concat(recs), cut))

\* read_cmd, lines 153-156: a new CmdReader in ReadingHeader, self.buf
\* cleared.
FramerCall ==
    /\ framer.stage = "idle"
    /\ framer' = [framer EXCEPT !.stage = "header", !.header_bytes = <<>>,
                                !.bytes_read = 0, !.expected_len = 0,
                                !.buf = <<>>, !.at_call = framer.src]
    /\ UNCHANGED <<kvs, codec, wire, net, boot, query, call>>

\* CmdReader::read in ReadingHeader, lines 69-103, when the source hands out
\* n >= 1 bytes: they go to header_bytes and to the caller's buffer, and a
\* full header moves the reader to ReadingCmd.
HeaderRead(f, n, header_bytes) ==
    [f EXCEPT !.src = Drop(f.src, n),
              !.header_bytes = header_bytes,
              !.buf = f.buf \o Take(f.src, n),
              !.short = f.short \/ n < HEADER_BYTES - Len(f.header_bytes),
              !.stage = IF Len(header_bytes) = HEADER_BYTES THEN "cmd" ELSE "header",
              !.expected_len = IF Len(header_bytes) = HEADER_BYTES
                               THEN ExpectedLen(ParseHeader(header_bytes)) ELSE 0]

FramerReadHeader ==
    /\ framer.stage = "header"
    /\ \E n \in 1..Min(HEADER_BYTES - Len(framer.header_bytes), Len(framer.src)) :
          framer' = HeaderRead(framer, n, framer.header_bytes \o Take(framer.src, n))
    /\ UNCHANGED <<kvs, codec, wire, net, boot, query, call>>

\* CmdReader::read in ReadingCmd, lines 109-123, when the source hands out
\* n >= 1 bytes.
FramerReadCmd ==
    /\ framer.stage = "cmd"
    /\ \E n \in 1..Min(framer.expected_len - framer.bytes_read, Len(framer.src)) :
          framer' = [framer EXCEPT !.src = Drop(framer.src, n),
                                   !.buf = framer.buf \o Take(framer.src, n),
                                   !.bytes_read = framer.bytes_read + n,
                                   !.short = framer.short
                                             \/ n < framer.expected_len - framer.bytes_read]
    /\ UNCHANGED <<kvs, codec, wire, net, boot, query, call>>

\* The read that returns 0 (the source is at its end, line 77 / 115-123, or
\* the record is complete, lines 111-113) ends read_to_end; read_cmd returns
\* what lines 161-172 make of self.buf.
Returned(f, r) ==
    [f EXCEPT !.stage = IF r.kind = "Some" THEN "idle" ELSE "stopped",
              !.results = Append(f.results, r)]

FramerReturn ==
    /\ \/ framer.stage = "header" /\ framer.src = <<>>
       \/ framer.stage = "cmd"
          /\ (framer.bytes_read = framer.expected_len \/ framer.src = <<>>)
    /\ framer' = Returned(framer, ReadBuf(framer.buf))
    /\ UNCHANGED <<kvs, codec, wire, net, boot, query, call>>

\* The source fails with an error other than Interrupted (lines 80, 118):
\* read_to_end fails and read_cmd returns the error (line 159).
FramerIoError ==
    /\ framer.stage \in {"header", "cmd"}
    /\ framer' = [Returned(framer, ReadErr) EXCEPT !.io = TRUE]
    /\ UNCHANGED <<kvs, codec, wire, net, boot, query, call>>

NextFramer ==
    \/ FramerCall
    \/ FramerReadHeader
    \/ FramerReadCmd
    \/ FramerReturn
    \/ FramerIoError

SpecFramer == InitFramer /\ [][NextFramer]_vars

(***************************************************************************)
(* Response, protocol/src/response.rs.                                     *)
(***************************************************************************)
\* b's', b'r', b'g', b'n', b'e'
SUCCESSFUL_SET_BYTE == 115
SUCCESSFUL_RM_BYTE == 114
SUCCESSFUL_GET_BYTE == 103
NOT_FOUND_BYTE == 110
ERROR_BYTE == 101

\* The texts of the program, as the bytes of their UTF-8 encoding.
\* "Invalid start byte"
InvalidStartByte == <<73, 110, 118, 97, 108, 105, 100, 32, 115, 116, 97, 114, 116, 32, 98, 121, 116, 101>>
\* "Invalid utf8"
InvalidUtf8 == <<73, 110, 118, 97, 108, 105, 100, 32, 117, 116, 102, 56>>
\* "Response had no data"
ResponseHadNoData == <<82, 101, 115, 112, 111, 110, 115, 101, 32, 104, 97, 100, 32, 110, 111, 32, 100, 97, 116, 97>>
\* "Key not found"
KeyNotFoundText == <<75, 101, 121, 32, 110, 111, 116, 32, 102, 111, 117, 110, 100>>
\* "reading command bytes"
ReadingCommandBytes == <<114, 101, 97, 100, 105, 110, 103, 32, 99, 111, 109, 109, 97, 110, 100, 32, 98, 121, 116, 101, 115>>
\* "parsing command body"
ParsingCommandBody == <<112, 97, 114, 115, 105, 110, 103, 32, 99, 111, 109, 109, 97, 110, 100, 32, 98, 111, 100, 121>>

SuccessfulSet == [tag |-> "SuccessfulSet", payload |-> <<>>]
SuccessfulRm == [tag |-> "SuccessfulRm", payload |-> <<>>]
SuccessfulGet(v) == [tag |-> "SuccessfulGet", payload |-> v]
KeyNotFound == [tag |-> "KeyNotFound", payload |-> <<>>]
Err(e) == [tag |-> "Err", payload |-> e]

\* The protocol before the 'g' and 'r' tags: every success starts with 's'.
ResponseWriteAllS(r) ==
    CASE r.tag = "SuccessfulSet" -> <<SUCCESSFUL_SET_BYTE>>
      [] r.tag = "SuccessfulRm" -> <<SUCCESSFUL_SET_BYTE>>
      [] r.tag = "SuccessfulGet" -> <<SUCCESSFUL_SET_BYTE>> \o r.payload
      [] r.tag = "KeyNotFound" -> <<NOT_FOUND_BYTE>>
      [] r.tag = "Err" -> <<ERROR_BYTE>> \o r.payload

\* Response::write into an always-succeeding writer: the bytes written.
ResponseWrite(r) ==
    CASE r.tag = "SuccessfulSet" -> <<SUCCESSFUL_SET_BYTE>>
      [] r.tag = "SuccessfulRm" -> <<SUCCESSFUL_RM_BYTE>>
      [] r.tag = "SuccessfulGet" -> <<SUCCESSFUL_GET_BYTE>> \o r.payload
      [] r.tag = "KeyNotFound" -> <<NOT_FOUND_BYTE>>
      [] r.tag = "Err" -> <<ERROR_BYTE>> \o r.payload

\* from_bytes, lines 43-50: the match on the first byte.
FirstByte(bytes) ==
    IF Len(bytes) = 0 THEN Err(InvalidStartByte)
    ELSE IF bytes[1] = SUCCESSFUL_SET_BYTE THEN SuccessfulSet
    ELSE IF bytes[1] = SUCCESSFUL_RM_BYTE THEN SuccessfulRm
    ELSE IF bytes[1] = SUCCESSFUL_GET_BYTE THEN SuccessfulGet(Drop(bytes, 1))
    ELSE IF bytes[1] = NOT_FOUND_BYTE THEN KeyNotFound
    ELSE IF bytes[1] = ERROR_BYTE THEN Err(Drop(bytes, 1))
    ELSE Err(InvalidStartByte)

\* from_bytes with the first byte looked at before the UTF-8 check.
FromBytesTagFirst(bytes) ==
    IF Len(bytes) > 0 /\ bytes[1] \in {SUCCESSFUL_SET_BYTE, SUCCESSFUL_RM_BYTE, NOT_FOUND_BYTE}
    THEN FirstByte(bytes)
    ELSE IF IsUtf8(bytes) THEN FirstByte(bytes) ELSE Err(InvalidUtf8)

\* Response::from_bytes
FromBytes(bytes) ==
    IF IsUtf8(bytes) THEN FirstByte(bytes) ELSE Err(InvalidUtf8)

\* 's', 'e', 'x', the two bytes of U+00E9, and a byte no UTF-8 text holds.
WireAlphabet == {115, 101, 120, 195, 169, 255}
WireBytes == UNION {[1..n -> WireAlphabet] : n \in 0..MaxStrLen}
WireStrs == {t \in WireBytes : IsUtf8(t)} \cup {InvalidUtf8, KeyNotFoundText}
Responses ==
    {SuccessfulSet, SuccessfulRm, KeyNotFound}
      \cup {SuccessfulGet(v) : v \in WireStrs} \cup {Err(e) : e \in WireStrs}

WireState(stage, given, r, bytes, parsed) ==
    [stage |-> stage, given |-> given, response |-> r, bytes |-> bytes,
     parsed |-> parsed]

\* Either a Response to write, or bytes that arrived from elsewhere.
InitWire ==
    /\ EngineAtOpen(NeverPolicy)
    /\ codec = CodecIdle
    /\ framer = Idle
    /\ net = Idle
    /\ boot = Idle
    /\ query = Idle
    /\ call = Idle
    /\ \/ \E r \in Responses : wire = WireState("input", FALSE, r, <<>>, KeyNotFound)
       \/ \E t \in WireBytes : wire = WireState("written", TRUE, KeyNotFound, t, KeyNotFound)

\* Response::write into an empty buffer.
WireWrite ==
    /\ wire.stage = "input"
    /\ wire' = [wire EXCEPT !.stage = "written", !.bytes = ResponseWrite(wire.response)]
    /\ UNCHANGED <<kvs, codec, framer, net, boot, query, call>>

\* Response::from_bytes on the buffer.
WireFromBytes ==
    /\ wire.stage = "written"
    /\ wire' = [wire EXCEPT !.stage = "parsed", !.parsed = FromBytes(wire.bytes)]
    /\ UNCHANGED <<kvs, codec, framer, net, boot, query, call>>

NextWire == WireWrite \/ WireFromBytes

SpecWire == InitWire /\ [][NextWire]_vars

(***************************************************************************)
(* The server (kvs-server/src/server.rs) and the clients                   *)
(* (kvs-client/src/client.rs) over TCP connections.                        *)
(***************************************************************************)
\* The Client values.
Clients == {1, 2}
Peer == 0

\* The commands the clients issue: set a x, get a, rm a.
NetCmds == {CmdSet(<<97>>, <<120>>), CmdGet(<<97>>), CmdRm(<<97>>)}

\* What a peer that is no Client may deliver before it closes its side:
\* nothing, a part of a header, a header with a part of the body.
PeerBytes ==
    {<<>>, Take(CmdWrite(CmdGet(<<97>>)).bytes, 5),
     Take(CmdWrite(CmdSet(<<97>>, <<120>>)).bytes, 13)}

\* A connection: the bytes its owner delivers, whether they have been
\* delivered and the owner's write half closed, how far the server is with
\* it, and what the server wrote.
Conn(owner, req) ==
    [owner |-> owner, req |-> req, sent |-> TRUE, state |-> "queued", resp |-> <<>>]

\* Results of the Client methods.
OutOk == [kind |-> "Ok", value |-> <<>>]
OutSome(v) == [kind |-> "Some", value |-> v]
OutNone == [kind |-> "None", value |-> <<>>]
OutErr == [kind |-> "Err", value |-> <<>>]

\* Client::new
ClientNew ==
    [response_buf |-> <<>>, pc |-> "idle", conn |-> 0, cmd |-> CmdGet(<<>>),
     connected |-> FALSE, decoded |-> KeyNotFound, outcome |-> OutOk]

\* Server::new, then run up to the first accept.
ServerNew ==
    [status |-> "running", cause |-> "none", pc |-> "accept", cur |-> 0,
     cmd |-> CmdGet(<<>>), from |-> "none", text |-> <<>>, out |-> <<>>]

InitNet ==
    /\ EngineAtOpen(MaxFilePolicy(MaxFilesN))
    /\ codec = CodecIdle
    /\ framer = Idle
    /\ wire = Idle
    /\ boot = Idle
    /\ query = Idle
    /\ call = Idle
    /\ net = [server |-> ServerNew, backlog |-> <<>>, conns |-> <<>>,
              accepted |-> <<>>, clients |-> [c \in Clients |-> ClientNew]]

\* Client::write_cmd, lines 63-71: connect, write the command, shut the
\* write half down.  The connection waits in the listener's queue.
Sent(n, c, cmd) ==
    [n EXCEPT !.conns = Append(n.conns, Conn(c, CmdWrite(cmd).bytes)),
              !.backlog = Append(n.backlog, Len(n.conns) + 1),
              !.clients[c] = [@ EXCEPT !.pc = "wait", !.conn = Len(n.conns) + 1,
                                       !.cmd = cmd, !.connected = TRUE]]

ClientSend(c, cmd) ==
    /\ net.server.status = "running"
    /\ net.clients[c].pc = "idle"
    /\ Len(net.conns) < MaxConns
    /\ net' = Sent(net, c, cmd)
    /\ UNCHANGED <<kvs, codec, framer, wire, boot, query, call>>

\* Client::set / get / rm, lines 33-36, 43-47, 54-57: the result for the
\* response write_cmd decoded.
ClientSet(decoded) == IF decoded = SuccessfulSet THEN OutOk ELSE OutErr
ClientGet(decoded) ==
    IF decoded.tag = "SuccessfulGet" THEN OutSome(decoded.payload)
    ELSE IF decoded = KeyNotFound THEN OutNone
    ELSE OutErr
\* rm with "Key not found" taken for success.
ClientRmLenient(decoded) ==
    IF decoded = SuccessfulRm \/ decoded = KeyNotFound THEN OutOk ELSE OutErr
ClientRm(decoded) == IF decoded = SuccessfulRm THEN OutOk ELSE OutErr

ClientOutcome(cmd, decoded) ==
    CASE cmd.tag = "Set" -> ClientSet(decoded)
      [] cmd.tag = "Get" -> ClientGet(decoded)
      [] cmd.tag = "Rm" -> ClientRm(decoded)

\* Client::write_cmd, lines 76-80: read_to_end appends what the connection
\* delivers to response_buf; from_bytes decodes response_buf.
Received(cl, response_buf) ==
    [cl EXCEPT !.pc = "idle", !.response_buf = response_buf,
               !.decoded = FromBytes(response_buf),
               !.outcome = ClientOutcome(cl.cmd, FromBytes(response_buf))]

\* The server, or the system when the server is gone, has closed the
\* connection: read_to_end returns.
ClientRecv(c) ==
    /\ net.clients[c].pc = "wait"
    /\ \/ net.conns[net.clients[c].conn].state = "closed"
       \/ net.server.status = "stopped"
    /\ net' = [net EXCEPT !.clients[c] =
                  Received(@, @.response_buf \o net.conns[net.clients[c].conn].resp)]
    /\ UNCHANGED <<kvs, codec, framer, wire, boot, query, call>>

\* Client::write_cmd, lines 76-78: the server is gone with the connection
\* unanswered and the system resets it; read_to_end fails and write_cmd
\* returns the error without decoding.
ClientRecvFails(c) ==
    /\ net.clients[c].pc = "wait"
    /\ net.server.status = "stopped"
    /\ net.conns[net.clients[c].conn].state # "closed"
    /\ net' = [net EXCEPT !.clients[c] =
                  [@ EXCEPT !.pc = "idle", !.connected = FALSE, !.outcome = OutErr]]
    /\ UNCHANGED <<kvs, codec, framer, wire, boot, query, call>>

\* Client::write_cmd, line 63: connect fails, the server is gone.
ClientConnectFails(c, cmd) ==
    /\ net.server.status = "stopped"
    /\ net.clients[c].pc = "idle"
    /\ Len(net.conns) < MaxConns
    /\ net' = [net EXCEPT !.conns = Append(@, [Conn(c, <<>>) EXCEPT !.state = "refused"]),
                          !.clients[c] =
                              [@ EXCEPT !.cmd = cmd, !.conn = Len(net.conns) + 1,
                                        !.connected = FALSE, !.outcome = OutErr]]
    /\ UNCHANGED <<kvs, codec, framer, wire, boot, query, call>>

\* A peer that is no Client connects, delivers bytes and closes its side.
PeerSend(bytes) ==
    /\ net.server.status = "running"
    /\ Len(net.conns) < MaxConns
    /\ net' = [net EXCEPT !.conns = Append(@, Conn(Peer, bytes)),
                          !.backlog = Append(@, Len(net.conns) + 1)]
    /\ UNCHANGED <<kvs, codec, framer, wire, boot, query, call>>

\* run, line 30: the loop takes the next connection only at its top.
AcceptingAnytime(server) == server.status = "running"
Accepting(server) == server.status = "running" /\ server.pc = "accept"

\* run, lines 30-31: the next connection of the listener.
ServerAccept ==
    /\ Accepting(net.server)
    /\ net.backlog # <<>>
    /\ net' = [net EXCEPT !.server = [@ EXCEPT !.pc = "read", !.cur = Head(net.backlog)],
                          !.backlog = Tail(@),
                          !.accepted = Append(@, Head(net.backlog)),
                          !.conns[Head(net.backlog)].state = "accepted"]
    /\ UNCHANGED <<kvs, codec, framer, wire, boot, query, call>>

Stopped(server, cause) == [server EXCEPT !.status = "stopped", !.cause = cause]

\* run, line 31: accept fails, `stream?` ends run.
ServerAcceptFails ==
    /\ Accepting(net.server)
    /\ net' = [net EXCEPT !.server = Stopped(@, "accept")]
    /\ UNCHANGED <<kvs, codec, framer, wire, boot, query, call>>

\* run, lines 36-48: the bytes written for a request that is no command.
Refused(server, from, text) ==
    [server EXCEPT !.pc = "write", !.from = from, !.text = text, !.out = text]

\* run, lines 34-49, for the result r of read_cmd.
ServerReadResult(server, r) ==
    IF r.kind = "Some" THEN [server EXCEPT !.pc = "handle", !.cmd = r.cmd, !.from = "cmd"]
    ELSE IF r.kind = "None" THEN Refused(server, "empty", ResponseHadNoData)
    ELSE IF r.kind = "Err" THEN Refused(server, "rejected", ParsingCommandBody)
    ELSE Stopped(server, "panic")

ServerRead ==
    /\ net.server.status = "running"
    /\ net.server.pc = "read"
    /\ net.conns[net.server.cur].sent
    /\ net' = [net EXCEPT !.server =
                  ServerReadResult(@, ReadCmd(net.conns[net.server.cur].req))]
    /\ UNCHANGED <<kvs, codec, framer, wire, boot, query, call>>

\* run, lines 42-47, when reading from the socket fails.
ServerReadFails ==
    /\ net.server.status = "running"
    /\ net.server.pc = "read"
    /\ net' = [net EXCEPT !.server = Refused(@, "unread", ReadingCommandBytes)]
    /\ UNCHANGED <<kvs, codec, framer, wire, boot, query, call>>

\* e.to_string() for an engine error.
ErrorText(ret) ==
    IF ret = RetKeyNotFound THEN KeyNotFoundText ELSE ParsingCommandBody

\* Server::handle_set / handle_get / handle_rm for the engine's result.
HandleSet(ret) == IF ret = RetOk THEN SuccessfulSet ELSE Err(ErrorText(ret))
HandleGet(ret) ==
    IF ret.kind = "Some" THEN SuccessfulGet(ret.value)
    ELSE IF ret.kind = "None" THEN KeyNotFound
    ELSE Err(ErrorText(ret))
HandleRm(ret) == IF ret = RetOk THEN SuccessfulRm ELSE Err(ErrorText(ret))

HandleCmd(cmd, ret) ==
    CASE cmd.tag = "Set" -> HandleSet(ret)
      [] cmd.tag = "Get" -> HandleGet(ret)
      [] cmd.tag = "Rm" -> HandleRm(ret)

\* run, lines 52-57: the response to write; a panic in the engine ends the
\* process.
Handled(server, ret) ==
    IF ret.kind = "Panic" THEN Stopped(server, "panic")
    ELSE [server EXCEPT !.pc = "write", !.out = ResponseWrite(HandleCmd(server.cmd, ret))]

\* run, lines 52-56: the command goes to the engine.
ServerHandle ==
    /\ net.server.status = "running"
    /\ net.server.pc = "handle"
    /\ \/ /\ net.server.cmd.tag = "Set"
          /\ \E o \in Orders : KvsSet(net.server.cmd.key, net.server.cmd.value, o)
       \/ /\ net.server.cmd.tag = "Get"
          /\ KvsGet(net.server.cmd.key)
       \/ /\ net.server.cmd.tag = "Rm"
          /\ \E o \in Orders : KvsRemove(net.server.cmd.key, o)
    /\ net' = [net EXCEPT !.server = Handled(@, last'.ret)]
    /\ UNCHANGED <<codec, framer, wire, boot, query, call>>

\* run, lines 38-40, 45-47, 57-59: the bytes go out, the stream is dropped,
\* the loop is at its top again.
ServerWrite ==
    /\ net.server.status = "running"
    /\ net.server.pc = "write"
    /\ net' = [net EXCEPT !.server = [@ EXCEPT !.pc = "accept"],
                          !.conns[net.server.cur] =
                              [@ EXCEPT !.state = "closed", !.resp = net.server.out]]
    /\ UNCHANGED <<kvs, codec, framer, wire, boot, query, call>>

\* run, lines 38-39, 45-46, 57-58: write_all or flush fails, `?` ends run.
ServerWriteFails ==
    /\ net.server.status = "running"
    /\ net.server.pc = "write"
    /\ net' = [net EXCEPT !.server = Stopped(@, "write"),
                          !.conns[net.server.cur].state = "closed"]
    /\ UNCHANGED <<kvs, codec, framer, wire, boot, query, call>>

NextNet ==
    \/ \E c \in Clients, cmd \in NetCmds : ClientSend(c, cmd)
    \/ \E c \in Clients : ClientRecv(c)
    \/ \E c \in Clients : ClientRecvFails(c)
    \/ \E c \in Clients, cmd \in NetCmds : ClientConnectFails(c, cmd)
    \/ \E bytes \in PeerBytes : PeerSend(bytes)
    \/ ServerAccept
    \/ ServerAcceptFails
    \/ ServerRead
    \/ ServerReadFails
    \/ ServerHandle
    \/ ServerWrite
    \/ ServerWriteFails

SpecNet == InitNet /\ [][NextNet]_vars

(***************************************************************************)
(* The server with no failing socket operation, and peers that connect     *)
(* first and deliver later: the server's loop keeps running, and every     *)
(* peer in the end delivers what it has and closes its write half.         *)
(***************************************************************************)
Unsent(owner) == [Conn(owner, <<>>) EXCEPT !.sent = FALSE]

\* A peer connects and has not written yet.
PeerConnect ==
    /\ net.server.status = "running"
    /\ Len(net.conns) < MaxConns
    /\ net' = [net EXCEPT !.conns = Append(@, Unsent(Peer)),
                          !.backlog = Append(@, Len(net.conns) + 1)]
    /\ UNCHANGED <<kvs, codec, framer, wire, boot, query, call>>

\* The peer of connection i delivers bytes and closes its write half.
PeerDeliver(i, bytes) ==
    /\ i \in DOMAIN net.conns
    /\ ~net.conns[i].sent
    /\ net' = [net EXCEPT !.conns[i] = [@ EXCEPT !.req = bytes, !.sent = TRUE]]
    /\ UNCHANGED <<kvs, codec, framer, wire, boot, query, call>>

NextNetLive ==
    \/ \E c \in Clients, cmd \in NetCmds : ClientSend(c, cmd)
    \/ \E c \in Clients : ClientRecv(c)
    \/ PeerConnect
    \/ \E i \in 1..MaxConns, bytes \in PeerBytes : PeerDeliver(i, bytes)
    \/ ServerAccept
    \/ ServerRead
    \/ ServerHandle
    \/ ServerWrite

\* run is one thread in a loop: a step of it that can be taken is taken.
ServerRuns ==
    /\ WF_vars(ServerAccept)
    /\ WF_vars(ServerRead)
    /\ WF_vars(ServerHandle)
    /\ WF_vars(ServerWrite)

\* Every connected peer in the end sends its request or closes its write
\* half.
PeersDeliver ==
    \A i \in 1..MaxConns : WF_vars(\E bytes \in PeerBytes : PeerDeliver(i, bytes))

SpecNetLive == InitNet /\ [][NextNetLive]_vars /\ ServerRuns /\ PeersDeliver

(***************************************************************************)
(* The compaction policies on their own, src/compaction_policy.rs: a       *)
(* policy is asked about a context.                                        *)
(***************************************************************************)
\* Default for MaxFilePolicy and for MaxDeadRecordPolicy.
DEFAULT_MAX_FILES == 8
DEFAULT_MAX_DEAD_RECORDS == 1024
MaxFilePolicyDefault == MaxFilePolicy(DEFAULT_MAX_FILES)
MaxDeadRecordPolicyDefault == MaxDeadRecordPolicy(DEFAULT_MAX_DEAD_RECORDS)

QueryPolicies == Policies \cup {MaxFilePolicyDefault, MaxDeadRecordPolicyDefault}
\* Counts around each threshold.
QueryCounts ==
    {0, MaxFilesN, MaxFilesN + 1, MaxDeadM + 1,
     DEFAULT_MAX_FILES - 1, DEFAULT_MAX_FILES, DEFAULT_MAX_FILES + 1,
     DEFAULT_MAX_DEAD_RECORDS - 1, DEFAULT_MAX_DEAD_RECORDS,
     DEFAULT_MAX_DEAD_RECORDS + 1}
Contexts == [open_immutable_files : QueryCounts, dead_commands : QueryCounts]

Asked(policy, context) ==
    [stage |-> "asked", policy |-> policy, context |-> context, answer |-> FALSE]

InitPolicy ==
    /\ EngineAtOpen(NeverPolicy)
    /\ codec = CodecIdle
    /\ framer = Idle
    /\ wire = Idle
    /\ net = Idle
    /\ boot = Idle
    /\ call = Idle
    /\ \E policy \in QueryPolicies, context \in Contexts : query = Asked(policy, context)

\* CompactionPolicy::should_compact
PolicyQuery ==
    /\ query.stage = "asked"
    /\ query' = [query EXCEPT !.stage = "answered",
                              !.answer = ShouldCompact(query.policy, query.context)]
    /\ UNCHANGED <<kvs, codec, framer, wire, net, boot, call>>

NextPolicy == PolicyQuery

SpecPolicy == InitPolicy /\ [][NextPolicy]_vars

(***************************************************************************)
(* Directories that hold more than the engine's own files.                 *)
(***************************************************************************)
\* A file the engine did not name, by the bytes of its name.  The engine's
\* own names ("<time>.pingcap", "0000-<time>.pingcap") stay as FileName and
\* CompactedFileName have them.
Foreign(name) == [name |-> name]
IsForeign(p) == "name" \in DOMAIN p

\* ".pingcap", "conf", "db", "notes", ".lock"
PINGCAP_SUFFIX == <<46, 112, 105, 110, 103, 99, 97, 112>>
CONF == <<99, 111, 110, 102>>
DB == <<100, 98>>
NOTES == <<110, 111, 116, 101, 115>>
DOT_LOCK == <<46, 108, 111, 99, 107>>

\* str::ends_with
EndsWith(b, suffix) ==
    Len(b) >= Len(suffix) /\ SubSeq(b, Len(b) - Len(suffix) + 1, Len(b)) = suffix

\* Ord for byte strings.
RECURSIVE BytesLess(_, _)
BytesLess(a, b) ==
    IF b = <<>> THEN FALSE
    ELSE IF a = <<>> THEN TRUE
    ELSE IF a[1] # b[1] THEN a[1] < b[1]
    ELSE BytesLess(Tail(a), Tail(b))

\* Ord for the paths of one directory.  The engine's names start with a
\* digit; the foreign names of the model start with '.' (before the digits)
\* or with a letter (after them).
DirLess(p, q) ==
    IF IsForeign(p)
    THEN IF IsForeign(q) THEN BytesLess(p.name, q.name) ELSE p.name[1] < 48
    ELSE IF IsForeign(q) THEN q.name[1] > 57 ELSE PathLess(p, q)

MinDir(S) == CHOOSE p \in S : \A q \in S \ {p} : DirLess(p, q)

\* paths.sort_unstable() over every entry of the directory.
RECURSIVE SortDir(_)
SortDir(S) ==
    IF S = {} THEN <<>> ELSE <<MinDir(S)>> \o SortDir(S \ {MinDir(S)})

\* KvStore::open_with_policy on a directory d that may hold foreign files.
OpenDir(d, now) == OpenSorted(d, now, SortDir(DOMAIN d))

(***************************************************************************)
(* Engine selection, kvs-server/src/engine.rs.                             *)
(***************************************************************************)
\* determine_previous_engine, lines 97-102, for one entry.
IsSledFile(p) == IsForeign(p) /\ (p.name = CONF \/ p.name = DB)
IsKvsFile(p) == IF IsForeign(p) THEN EndsWith(p.name, PINGCAP_SUFFIX) ELSE TRUE

\* determine_previous_engine over the entries in the order read_dir yields
\* them: the first entry that says something decides.
RECURSIVE DeterminePreviousEngine(_)
DeterminePreviousEngine(entries) ==
    IF entries = <<>> THEN "None"
    ELSE IF IsSledFile(Head(entries)) THEN "Sled"
    ELSE IF IsKvsFile(Head(entries)) THEN "Kvs"
    ELSE DeterminePreviousEngine(Tail(entries))

Bail == [engine |-> "None", result |-> "bail"]
\* sled::open is called; what it returns is sled's business.
SledOpen == [engine |-> "Sled", result |-> "called"]
\* KvStore::open is called and returns, fails or panics.
KvsOpened(kv) == [engine |-> "Kvs", result |-> RetOf(kv).kind]
KvsOpen(d) == KvsOpened(OpenDir(d, 2))

\* Engine::new_in, lines 67-82.
NewInMatch(prev_engine, engine_type, d) ==
    IF prev_engine = "Sled" /\ engine_type = "Kvs" THEN Bail
    ELSE IF prev_engine = "Kvs" /\ engine_type = "Sled" THEN Bail
    ELSE IF engine_type = "Kvs" THEN KvsOpen(d)
    ELSE IF engine_type = "Sled" THEN SledOpen
    ELSE IF prev_engine = "Sled" THEN SledOpen
    ELSE KvsOpen(d)

\* Engine::new_in for the requested engine ("None": no engine requested) on
\* directory d whose entries read_dir yields in the order `entries`.
NewIn(engine_type, d, entries) ==
    NewInMatch(DeterminePreviousEngine(entries), engine_type, d)

\* The directories: any of conf, db, notes and a log file; foreign files
\* empty or one byte long, the log file empty or one record long.
BootNames == {Foreign(CONF), Foreign(DB), Foreign(NOTES), FileName(1)}
BootContents(p) ==
    IF IsForeign(p) THEN {<<>>, <<0>>}
    ELSE {<<>>, CmdWrite(CmdSet(<<97>>, <<120>>)).bytes}
BootDirs ==
    UNION {{d \in [S -> UNION {BootContents(p) : p \in S}] :
               \A p \in S : d[p] \in BootContents(p)} : S \in SUBSET BootNames}
\* The orders read_dir may yield the entries of d in.
Enumerations(d) ==
    {e \in [1..Cardinality(DOMAIN d) -> DOMAIN d] :
        \A i, j \in DOMAIN e : i # j => e[i] # e[j]}
EngineTypes == {"None", "Kvs", "Sled"}

Booting(engine_type, d, entries) ==
    [stage |-> "start", engine |-> engine_type, dir |-> d, entries |-> entries,
     outcome |-> Bail]

InitSelect ==
    /\ EngineAtOpen(NeverPolicy)
    /\ codec = CodecIdle
    /\ framer = Idle
    /\ wire = Idle
    /\ net = Idle
    /\ query = Idle
    /\ call = Idle
    /\ \E engine_type \in EngineTypes, d \in BootDirs :
          \E entries \in Enumerations(d) : boot = Booting(engine_type, d, entries)

EngineNewIn ==
    /\ boot.stage = "start"
    /\ boot' = [boot EXCEPT !.stage = "done",
                            !.outcome = NewIn(boot.engine, boot.dir, boot.entries)]
    /\ UNCHANGED <<kvs, codec, framer, wire, net, query, call>>

NextSelect == EngineNewIn

SpecSelect == InitSelect /\ [][NextSelect]_vars

(***************************************************************************)
(* KvStore::open_with_policy run on its own over a directory found on      *)
(* disk: log files of whole records, and files of other names.             *)
(***************************************************************************)
OpenRecs == {CmdSet(<<97>>, <<120>>), CmdRm(<<97>>), CmdGet(<<97>>)}
LogContents == {Concat(recs) : recs \in UNION {[1..n -> OpenRecs] : n \in 0..MaxRecords}}
OpenNames == {FileName(1), FileName(2), Foreign(NOTES), Foreign(DOT_LOCK)}
OpenContents(p) == IF IsForeign(p) THEN {<<>>, <<0>>} ELSE LogContents
OpenDirs ==
    UNION {{d \in [S -> UNION {OpenContents(p) : p \in S}] :
               \A p \in S : d[p] \in OpenContents(p)} : S \in SUBSET OpenNames}

\* No KvStore yet.
NoFile == LogFile(Foreign(<<>>), 0)

InitOpen ==
    /\ compaction_policy = MaxFilePolicyDefault
    /\ index = << >>
    /\ active_file = NoFile
    /\ immutable_files = << >>
    /\ dead_data_count = 0
    /\ disk \in OpenDirs
    /\ clock = 3
    /\ status = "closed"
    /\ latest = [k \in Keys |-> GetNone]
    /\ last = Did("none", << >>, RetOk, FALSE, FALSE, NoView, NoView)
    /\ ops = 0
    /\ codec = CodecIdle
    /\ framer = Idle
    /\ wire = Idle
    /\ net = Idle
    /\ boot = Idle
    /\ query = Idle
    /\ call = Idle

\* How KvStore::open left the process: a store, an error value, or a panic.
OpenStatus(kv) ==
    IF kv.fault = "none" THEN "ok"
    ELSE IF kv.fault = "err" THEN "open_failed"
    ELSE "panicked"

Opened(kv) ==
    /\ Install(kv)
    /\ status' = OpenStatus(kv)
    /\ last' = Did("open", << >>, RetOf(kv), FALSE, FALSE, NoView, NoView)

\* KvStore::open
KvStoreOpen ==
    /\ status = "closed"
    /\ Opened(OpenDir(disk, clock))
    /\ UNCHANGED <<compaction_policy, latest, ops, codec, framer, wire, net,
                   boot, query, call>>

NextOpen == KvStoreOpen

SpecOpen == InitOpen /\ [][NextOpen]_vars

(***************************************************************************)
(* The engine step by step: write_cmd and compactify as the sequence of    *)
(* their effects, a process stop at any point between two of them, and the *)
(* open that follows.                                                      *)
(***************************************************************************)
\* The number of set and remove calls followed.
MaxCalls == 4

\* The engine value a call started from, and the parts a later step needs
\* to be compared with.
Snapshot(kv) ==
    [index |-> kv.index, active_file |-> kv.active_file,
     immutable_files |-> kv.immutable_files,
     dead_data_count |-> kv.dead_data_count, disk |-> kv.disk]
NoSnapshot == Snapshot(OpenWithPolicy(<< >>, 0))

NoContext == [open_immutable_files |-> 0, dead_commands |-> 0]

\* A call of op with record cmd, at position pc, on the engine value kv.
Calling(op, cmd, pc, ret, kv) ==
    [pc |-> pc, op |-> op, cmd |-> cmd, ret |-> ret, kv0 |-> Snapshot(kv),
     file_offset |-> 0, trace |-> <<>>, rolled |-> FALSE, pre_roll |-> NoSnapshot,
     context |-> NoContext, answer |-> FALSE,
     todo |-> <<>>, compacted_file |-> NoFile, copied |-> <<>>, unlinked |-> 0,
     before |-> NoView, stopped_at |-> "none"]

NoCall == Calling("none", CmdGet(<<>>), "idle", RetOk, OpenWithPolicy(<< >>, 0))

InitSteps ==
    /\ EngineAtOpen(MaxFilePolicy(MaxFilesN))
          \/ EngineAtOpen(MaxDeadRecordPolicy(MaxDeadM))
    /\ codec = CodecIdle
    /\ framer = Idle
    /\ wire = Idle
    /\ net = Idle
    /\ boot = Idle
    /\ query = Idle
    /\ call = NoCall

history == <<status, latest, last, codec, framer, wire, net, boot, query>>

\* write_cmd with the policy asked before the roll-over.
NextStepQueryEarly(pc, due, answer) ==
    CASE pc = "append" -> "index"
      [] pc = "index" -> "query"
      [] pc = "query" -> IF due THEN "roll" ELSE IF answer THEN "compact" ELSE "return"
      [] pc = "roll" -> IF answer THEN "compact" ELSE "return"

\* write_cmd, lines 206-256: what follows the step at pc; `due` is the
\* roll-over test of line 231, `answer` what should_compact returned.
NextStep(pc, due, answer) ==
    CASE pc = "append" -> "index"
      [] pc = "index" -> IF due THEN "roll" ELSE "query"
      [] pc = "roll" -> "query"
      [] pc = "query" -> IF answer THEN "compact" ELSE "return"

Ready == status = "ok" /\ call.pc = "idle"

\* KvsEngine::set, lines 293-295: the record is built, write_cmd entered.
SetCall(key, value) ==
    /\ Ready
    /\ ops < MaxCalls
    /\ call' = Calling("set", CmdSet(key, value), "append", RetOk, KV)
    /\ ops' = ops + 1
    /\ UNCHANGED <<engine, compaction_policy, history>>

\* KvsEngine::get, whole: it reads and returns, or panics.
GetCall(key) ==
    /\ Ready
    /\ call' = Calling("get", CmdGet(key), "idle", Get(KV, key), KV)
    /\ status' = StatusOf(Get(KV, key))
    /\ UNCHANGED <<engine, compaction_policy, ops, latest, last, codec, framer,
                   wire, net, boot, query>>

\* remove, lines 300-314, for the result `found` of get.
RemoveCalling(key, found) ==
    IF found.kind = "Some"
    THEN Calling("remove", CmdRm(key), "append", RetOk, KV)
    ELSE Calling("remove", CmdRm(key), "idle",
                 IF found.kind = "None" THEN RetKeyNotFound ELSE found, KV)

\* KvsEngine::remove up to write_cmd, or to its return when the key is
\* absent.
RemoveCall(key) ==
    /\ Ready
    /\ ops < MaxCalls
    /\ call' = RemoveCalling(key, Get(KV, key))
    /\ status' = StatusOf(Get(KV, key))
    /\ ops' = ops + 1
    /\ UNCHANGED <<engine, compaction_policy, latest, last, codec, framer, wire,
                   net, boot, query>>

Stepped(c, step, pc) == [c EXCEPT !.trace = Append(@, step), !.pc = pc]

\* write_cmd, lines 207-211.
WriteAppend ==
    /\ status = "ok"
    /\ call.pc = "append"
    /\ Install(AppendCmd(KV, call.cmd))
    /\ call' = [Stepped(call, "append", NextStep("append", FALSE, FALSE))
                  EXCEPT !.file_offset = active_file.len]
    /\ UNCHANGED <<compaction_policy, ops, history>>

\* write_cmd, lines 213-228.
WriteIndex ==
    /\ status = "ok"
    /\ call.pc = "index"
    /\ Install(IndexUpdate(KV, CmdKey(call.cmd), call.file_offset))
    /\ call' = Stepped(call, "index",
                       NextStep("index", RollOverDue(call.file_offset), call.answer))
    /\ UNCHANGED <<compaction_policy, ops, history>>

\* write_cmd, lines 231-244, when the test of line 231 holds.
WriteRollOver ==
    /\ status = "ok"
    /\ call.pc = "roll"
    /\ Install(RollOver(KV))
    /\ call' = [Stepped(call, "roll",
                        NextStep("roll", RollOverDue(call.file_offset), call.answer))
                  EXCEPT !.rolled = TRUE, !.pre_roll = Snapshot(KV)]
    /\ UNCHANGED <<compaction_policy, ops, history>>

Answered(c, context, answer, due) ==
    [Stepped(c, "query", NextStep("query", due, answer))
       EXCEPT !.context = context, !.answer = answer]

\* write_cmd, lines 246-251.
WriteQuery ==
    /\ status = "ok"
    /\ call.pc = "query"
    /\ call' = Answered(call, CompactionContext(KV),
                        ShouldCompact(compaction_policy, CompactionContext(KV)),
                        RollOverDue(call.file_offset))
    /\ UNCHANGED <<engine, compaction_policy, ops, history>>

\* What get yields for every key while write_cmd runs for c: the entry of a
\* key whose remove is in progress points at the Rm record just appended,
\* and the key is gone.
ViewIn(c, kv) ==
    [k \in Keys |-> IF c.op = "remove" /\ c.cmd.key = k THEN GetNone ELSE Get(kv, k)]

CopyingNext(todo) == IF todo = <<>> THEN "unlink" ELSE "copy"

CompactStarted(c, kv, compacted_file, todo) ==
    [Stepped(c, "compact", CopyingNext(todo))
       EXCEPT !.compacted_file = compacted_file, !.todo = todo,
              !.before = ViewIn(c, kv)]

\* compactify, lines 163-166: the compacted file is created; o is the order
\* in which the HashMap will yield its entries.
CompactCreate(o) ==
    /\ status = "ok"
    /\ call.pc = "compact"
    /\ disk' = OpenFile(disk, CompactedFileName(clock))
    /\ clock' = clock + 1
    /\ call' = CompactStarted(call, KV,
                              LogFileNew(OpenFile(disk, CompactedFileName(clock)),
                                         CompactedFileName(clock)),
                              OrderOf(KV, o))
    /\ UNCHANGED <<index, active_file, immutable_files, dead_data_count,
                   compaction_policy, ops, history>>

Copied(c, done, cmd) ==
    [c EXCEPT !.compacted_file = done.compacted_file,
              !.copied = Append(@, cmd),
              !.todo = Tail(@),
              !.pc = CopyingNext(Tail(c.todo))]

\* compactify, lines 168-191, one turn of the loop, for the entry of the key
\* Head(todo): an entry of the active file is passed over, the record r of
\* any other is copied.
CopyTurn(c, r) ==
    IF index[Head(c.todo)].file_idx = ACTIVE_FILE_IDX
    THEN /\ call' = [c EXCEPT !.todo = Tail(@), !.pc = CopyingNext(Tail(c.todo))]
         /\ UNCHANGED <<engine, status>>
    ELSE IF r.kind # "Some"
    THEN /\ call' = [c EXCEPT !.pc = "idle", !.ret = GetRead(r)]
         /\ status' = IF r.kind = "Err" THEN "ok" ELSE "panicked"
         /\ UNCHANGED engine
    ELSE /\ Install(CopyRecord(KV, c.compacted_file, Head(c.todo), CmdWrite(r.cmd)).kv)
         /\ call' = Copied(c, CopyRecord(KV, c.compacted_file, Head(c.todo),
                                         CmdWrite(r.cmd)), r.cmd)
         /\ UNCHANGED status

CompactCopy ==
    /\ status = "ok"
    /\ call.pc = "copy"
    /\ CopyTurn(call, ReadAt(KV, index[Head(call.todo)]))
    /\ UNCHANGED <<compaction_policy, ops, latest, last, codec, framer, wire, net,
                   boot, query>>

\* The unlinking from the newest immutable file down.
UnlinkNextFromBack(files, unlinked) == files[Len(files) - unlinked].path

\* compactify, line 192: drain(..) yields the immutable files from the first
\* slot on; the path of the one after `unlinked` of them.
UnlinkNext(files, unlinked) == files[unlinked + 1].path

\* compactify, lines 192-194, one turn of the loop: the next immutable file
\* is unlinked.
CompactUnlink ==
    /\ status = "ok"
    /\ call.pc = "unlink"
    /\ call.unlinked < Len(immutable_files)
    /\ disk' = [q \in DOMAIN disk \ {UnlinkNext(immutable_files, call.unlinked)} |-> disk[q]]
    /\ call' = [call EXCEPT !.unlinked = @ + 1]
    /\ UNCHANGED <<index, active_file, immutable_files, dead_data_count, clock,
                   compaction_policy, ops, history>>

\* compactify, lines 195-200: the compacted file is the immutable list, the
\* count is reset.
CompactFinish ==
    /\ status = "ok"
    /\ call.pc = "unlink"
    /\ call.unlinked = Len(immutable_files)
    /\ Install(ReplaceImmutables(KV, call.compacted_file))
    /\ call' = [call EXCEPT !.pc = "return"]
    /\ UNCHANGED <<compaction_policy, ops, history>>

\* write_cmd returns Ok; remove, lines 304-308, drops the entry.
WriteReturn ==
    /\ status = "ok"
    /\ call.pc = "return"
    /\ index' = IF call.op = "remove" THEN MapRemove(index, call.cmd.key) ELSE index
    /\ call' = [call EXCEPT !.pc = "idle"]
    /\ UNCHANGED <<active_file, immutable_files, dead_data_count, disk, clock,
                   compaction_policy, ops, history>>

Stop(c, at) == [c EXCEPT !.pc = "down", !.stopped_at = at]

\* The process stops between two steps of a call.
Crash ==
    /\ status = "ok"
    /\ call.pc \notin {"idle", "down"}
    /\ status' = "stopped"
    /\ call' = Stop(call, call.pc)
    /\ UNCHANGED <<engine, compaction_policy, ops, latest, last, codec, framer,
                   wire, net, boot, query>>

\* The lengths at which an append may be cut: inside the header, and with
\* the header whole.
PartialLens == {1, HEADER_BYTES}

\* The process stops inside the append of line 210 with the first n bytes of
\* the record in the file.
CrashInAppend(n) ==
    /\ status = "ok"
    /\ call.pc = "append"
    /\ n < CmdWrite(call.cmd).n
    /\ disk' = [disk EXCEPT ![active_file.path] = @ \o Take(CmdWrite(call.cmd).bytes, n)]
    /\ status' = "stopped"
    /\ call' = Stop(call, "partial")
    /\ UNCHANGED <<index, active_file, immutable_files, dead_data_count, clock,
                   compaction_policy, ops, latest, last, codec, framer, wire, net,
                   boot, query>>

Recovered(kv) ==
    /\ Install(kv)
    /\ status' = OpenStatus(kv)
    /\ call' = [call EXCEPT !.pc = "idle", !.op = "recover", !.ret = RetOf(kv)]

\* KvStore::open_with_policy over the directory the stopped process left.
Recover ==
    /\ status = "stopped"
    /\ Recovered(OpenWithPolicy(disk, clock))
    /\ UNCHANGED <<compaction_policy, ops, latest, last, codec, framer, wire, net,
                   boot, query>>

NextSteps ==
    \/ \E key \in Keys, value \in Values : SetCall(key, value)
    \/ \E key \in Keys : GetCall(key)
    \/ \E key \in Keys : RemoveCall(key)
    \/ WriteAppend
    \/ WriteIndex
    \/ WriteRollOver
    \/ WriteQuery
    \/ \E o \in Orders : CompactCreate(o)
    \/ CompactCopy
    \/ CompactUnlink
    \/ CompactFinish
    \/ WriteReturn
    \/ Crash
    \/ \E n \in PartialLens : CrashInAppend(n)
    \/ Recover

SpecSteps == InitSteps /\ [][NextSteps]_vars

(***************************************************************************)
(* The engine over more keys than files: sets only, each one whole, so     *)
(* that a compaction may find every record of the immutable files live.    *)
(***************************************************************************)
\* The number of sets followed.
MaxSets == 4

ManyKeys == {<<97>>, <<98>>, <<99>>, <<100>>}

\* The orders in which a HashMap may yield these keys.
ManyOrders ==
    {o \in [1..Cardinality(ManyKeys) -> ManyKeys] :
        \A i, j \in DOMAIN o : i # j => o[i] # o[j]}

\* What a set did: the immutable files the policy was asked about, and its
\* answer.
Asking(kv, policy) ==
    [stage |-> "wrote", replaced |-> kv.immutable_files, fired |-> Fires(kv, policy)]

InitManyKeys ==
    /\ EngineAtOpen(MaxFilePolicy(MaxFilesN))
          \/ EngineAtOpen(MaxDeadRecordPolicy(MaxDeadM))
    /\ codec = CodecIdle
    /\ framer = Idle
    /\ wire = Idle
    /\ net = Idle
    /\ boot = Idle
    /\ query = Idle
    /\ call = Idle

\* KvsEngine::set, whole, with the value "x".
SetOfMany(key, o) ==
    /\ ops < MaxSets
    /\ Install(WriteCmd(KV, compaction_policy, CmdSet(key, <<120>>),
                        OrderOf(BeforePolicy(KV, CmdSet(key, <<120>>)), o)))
    /\ call' = Asking(BeforePolicy(KV, CmdSet(key, <<120>>)), compaction_policy)
    /\ ops' = ops + 1
    /\ UNCHANGED <<compaction_policy, status, latest, last, codec, framer, wire,
                   net, boot, query>>

NextManyKeys == \E key \in ManyKeys, o \in ManyOrders : SetOfMany(key, o)

SpecManyKeys == InitManyKeys /\ [][NextManyKeys]_vars

(***************************************************************************)
(* Cmd::parse_body on its own: any lengths, any bytes.                     *)
(***************************************************************************)
\* Longest body parse_body is given.
MaxBodyLen == 4

\* 2^24 as a key length and as a value length: more than any body of the
\* model holds.
FAR_KEY_LEN == [i \in 1..HEADER_KEY_BYTES |-> IF i = HEADER_KEY_BYTES - 3 THEN 1 ELSE 0]
FAR_VALUE_LEN == [i \in 1..HEADER_VALUE_BYTES |-> IF i = HEADER_VALUE_BYTES - 3 THEN 1 ELSE 0]

\* u64::MAX - 2, the largest value length that is no sentinel.
HUGE_VALUE_LEN == [i \in 1..HEADER_VALUE_BYTES |-> IF i = HEADER_VALUE_BYTES THEN 253 ELSE 255]

KeyLens == {ToBeBytes(n, HEADER_KEY_BYTES) : n \in 0..3} \cup {FAR_KEY_LEN}
ValueLens ==
    {ToBeBytes(n, HEADER_VALUE_BYTES) : n \in 0..2}
      \cup {GET_VALUE_LEN, RM_VALUE_LEN, HUGE_VALUE_LEN, FAR_VALUE_LEN}
\* Bodies: bytes of "a" and of U+00E9 in any order, well formed or not.
Bodies == UNION {[1..n -> Alphabet] : n \in 0..MaxBodyLen}

Body(stage, key_len, value_len, bytes, parsed) ==
    [stage |-> stage, key_len |-> key_len, value_len |-> value_len,
     bytes |-> bytes, parsed |-> parsed]

InitBody ==
    /\ EngineAtOpen(NeverPolicy)
    /\ codec = CodecIdle
    /\ framer = Idle
    /\ wire = Idle
    /\ net = Idle
    /\ boot = Idle
    /\ \E key_len \in KeyLens, value_len \in ValueLens, bytes \in Bodies :
          query = Body("input", key_len, value_len, bytes, ParseErr(""))
    /\ call = Idle

\* Cmd::parse_body(key_len, value_len, bytes).
BodyParse ==
    /\ query.stage = "input"
    /\ query' = [query EXCEPT !.stage = "parsed",
                              !.parsed = ParseBody(query.key_len, query.value_len,
                                                   query.bytes)]
    /\ UNCHANGED <<kvs, codec, framer, wire, net, boot, call>>

NextBody == BodyParse

SpecBody == InitBody /\ [][NextBody]_vars

(***************************************************************************)
(* The active file's handle: one File opened by file_util::open_file, its  *)
(* position moved by the seek and the read of get and used, or not, by the *)
(* write of write_cmd.                                                     *)
(***************************************************************************)
\* Bytes w written into a file at offset `at`.
WriteAt(bytes, at, w) == Take(bytes, at) \o w \o Drop(bytes, at + Len(w))

\* A handle opened without append(true): a write lands at the position.
WriteOffsetAtPosition(bytes, pos) == pos

\* file_util::open_file, line 12, append(true): every write lands at the end
\* of the file, wherever the handle's position is.
WriteOffset(bytes, pos) == Len(bytes)

\* write_cmd, lines 207-211, through a handle at position pos.
HandleAppend(kv, pos, w) ==
    [kv EXCEPT !.disk = [kv.disk EXCEPT ![kv.active_file.path] =
                            WriteAt(@, WriteOffset(@, pos), w.bytes)],
               !.active_file = LogFile(kv.active_file.path, kv.active_file.len + w.n)]

\* KvStore::write_cmd through a handle at position pos.
HandleWriteCmd(kv, pos, policy, cmd, o) ==
    CompactIfDue(RollIfDue(IndexUpdate(HandleAppend(kv, pos, CmdWrite(cmd)),
                                       CmdKey(cmd), kv.active_file.len),
                           kv.active_file.len),
                 policy, OrderOf(BeforePolicy(kv, cmd), o))

\* The position after write_cmd: the end of what was written, or the start
\* of the new active file after a roll-over.
PosAfterWrite(kv, pos, w) ==
    IF RollOverDue(kv.active_file.len) THEN 0
    ELSE WriteOffset(kv.disk[kv.active_file.path], pos) + w.n

\* get, lines 267-277: the position after the seek and read_cmd when the
\* entry of the key is in the active file; untouched otherwise.
PosAfterGet(kv, pos, key) ==
    IF key \in DOMAIN kv.index /\ kv.index[key].file_idx = ACTIVE_FILE_IDX
    THEN kv.index[key].file_offset + ReadAt(kv, kv.index[key]).bytes_read
    ELSE pos

Handle(pos, did, cmd, o, q, kv) ==
    [stage |-> "handle", pos |-> pos, did |-> did, cmd |-> cmd, order |-> o,
     prev |-> q.did, at |-> q.pos, before |-> kv]

InitHandle ==
    /\ EngineAtOpen(MaxFilePolicy(MaxFilesN))
          \/ EngineAtOpen(MaxDeadRecordPolicy(MaxDeadM))
    /\ codec = CodecIdle
    /\ framer = Idle
    /\ wire = Idle
    /\ net = Idle
    /\ boot = Idle
    /\ query = [stage |-> "handle", pos |-> 0, did |-> "open", cmd |-> CmdGet(<<>>),
                order |-> <<>>, prev |-> "none", at |-> 0, before |-> KV]
    /\ call = Idle

\* KvsEngine::get.
FileGet(key) ==
    /\ status = "ok"
    /\ status' = StatusOf(Get(KV, key))
    /\ query' = Handle(PosAfterGet(KV, query.pos, key), "get", CmdGet(key), <<>>, query, KV)
    /\ UNCHANGED <<engine, compaction_policy, latest, last, ops, codec, framer, wire,
                   net, boot, call>>

\* KvsEngine::set.
FileSet(key, value, o) ==
    /\ status = "ok"
    /\ ops < MaxCalls
    /\ Install(HandleWriteCmd(KV, query.pos, compaction_policy, CmdSet(key, value), o))
    /\ query' = Handle(PosAfterWrite(KV, query.pos, CmdWrite(CmdSet(key, value))),
                       "set", CmdSet(key, value), o, query, KV)
    /\ ops' = ops + 1
    /\ UNCHANGED <<compaction_policy, status, latest, last, codec, framer, wire, net,
                   boot, call>>

\* remove, lines 300-314, for the result `found` of its get, which has left
\* the handle at position pos.
FileRemoveFound(key, o, found, pos) ==
    IF found.kind = "Some"
    THEN /\ Install(Removed(HandleWriteCmd(KV, pos, compaction_policy, CmdRm(key), o), key))
         /\ query' = Handle(PosAfterWrite(KV, pos, CmdWrite(CmdRm(key))),
                            "remove", CmdRm(key), o, query, KV)
         /\ UNCHANGED status
    ELSE /\ query' = Handle(pos, "remove_absent", CmdRm(key), o, query, KV)
         /\ status' = StatusOf(found)
         /\ UNCHANGED engine

\* KvsEngine::remove.
FileRemove(key, o) ==
    /\ status = "ok"
    /\ ops < MaxCalls
    /\ FileRemoveFound(key, o, Get(KV, key), PosAfterGet(KV, query.pos, key))
    /\ ops' = ops + 1
    /\ UNCHANGED <<compaction_policy, latest, last, codec, framer, wire, net, boot,
                   call>>

\* The position hydrate leaves: the active file read to its end (lines
\* 104-110).
PosAfterOpen(kv) == Len(kv.disk[kv.active_file.path])

\* The store dropped and opened again with the same policy.
FileReopen ==
    /\ status = "ok"
    /\ Install(OpenWithPolicy(disk, clock))
    /\ status' = OpenStatus(OpenWithPolicy(disk, clock))
    /\ query' = Handle(PosAfterOpen(OpenWithPolicy(disk, clock)), "open", CmdGet(<<>>),
                       <<>>, query, KV)
    /\ UNCHANGED <<compaction_policy, latest, last, ops, codec, framer, wire, net,
                   boot, call>>

NextHandle ==
    \/ FileReopen
    \/ \E key \in Keys : FileGet(key)
    \/ \E key \in Keys, value \in Values, o \in Orders : FileSet(key, value, o)
    \/ \E key \in Keys, o \in Orders : FileRemove(key, o)

SpecHandle == InitHandle /\ [][NextHandle]_vars

(***************************************************************************)
(* The engine step by step with failing I/O: any of the fallible steps of  *)
(* write_cmd and compactify may return an error, which `?` hands to the    *)
(* caller; the store stays open and is called again.                       *)
(***************************************************************************)
\* The call c returned Err from the step `at`.
Failed(c, at) == [c EXCEPT !.pc = "idle", !.ret = GetErr, !.stopped_at = at]

\* Whether a call returned an error of an I/O step.
IoFailed(c) == c.pc = "idle" /\ c.ret = GetErr /\ c.stopped_at # "none"

\* The bytes in the file when cmd.write fails: none, or those of the
\* write_all calls and partial writes before the failure.
FailedLens == {0} \cup PartialLens

\* write_cmd, line 210: `cmd.write(&f.file)?` fails with the first n bytes
\* of the record written; line 211 is not reached.
FailAppend(n) ==
    /\ status = "ok"
    /\ call.pc = "append"
    /\ n < CmdWrite(call.cmd).n
    /\ disk' = [disk EXCEPT ![active_file.path] = @ \o Take(CmdWrite(call.cmd).bytes, n)]
    /\ call' = Failed(call, "append")
    /\ UNCHANGED <<index, active_file, immutable_files, dead_data_count, clock,
                   compaction_policy, ops, history>>

\* write_cmd, line 233: `LogFile::new(next_file)?` fails, in open_file or,
\* with the file created, in metadata(); lines 234-243 are not reached.
FailRollOver(created) ==
    /\ status = "ok"
    /\ call.pc = "roll"
    /\ disk' = IF created THEN OpenFile(disk, FileName(clock)) ELSE disk
    /\ clock' = clock + 1
    /\ call' = Failed(call, "roll")
    /\ UNCHANGED <<index, active_file, immutable_files, dead_data_count,
                   compaction_policy, ops, history>>

\* compactify, line 166: `LogFile::new(compacted_path)?` fails.
FailCreate(created) ==
    /\ status = "ok"
    /\ call.pc = "compact"
    /\ disk' = IF created THEN OpenFile(disk, CompactedFileName(clock)) ELSE disk
    /\ clock' = clock + 1
    /\ call' = Failed(call, "create")
    /\ UNCHANGED <<index, active_file, immutable_files, dead_data_count,
                   compaction_policy, ops, history>>

\* compactify, lines 175-185: the seek, the read or the write of one turn
\* of the loop fails; the entries of the turns before it stay rewritten.
FailCopy ==
    /\ status = "ok"
    /\ call.pc = "copy"
    /\ index[Head(call.todo)].file_idx # ACTIVE_FILE_IDX
    /\ call' = Failed(call, "copy")
    /\ UNCHANGED <<engine, compaction_policy, ops, history>>

\* compactify, lines 192-194: remove_file fails; the return drops the Drain,
\* which takes the files not yet yielded out of the list with it.
FailUnlink ==
    /\ status = "ok"
    /\ call.pc = "unlink"
    /\ call.unlinked < Len(immutable_files)
    /\ immutable_files' = << >>
    /\ call' = Failed(call, "unlink")
    /\ UNCHANGED <<index, active_file, dead_data_count, disk, clock,
                   compaction_policy, ops, history>>

NextFaults ==
    \/ \E key \in Keys, value \in Values : SetCall(key, value)
    \/ \E key \in Keys : GetCall(key)
    \/ \E key \in Keys : RemoveCall(key)
    \/ WriteAppend
    \/ WriteIndex
    \/ WriteRollOver
    \/ WriteQuery
    \/ \E o \in Orders : CompactCreate(o)
    \/ CompactCopy
    \/ CompactUnlink
    \/ CompactFinish
    \/ WriteReturn
    \/ \E n \in FailedLens : FailAppend(n)
    \/ \E created \in BOOLEAN : FailRollOver(created)
    \/ \E created \in BOOLEAN : FailCreate(created)
    \/ FailCopy
    \/ FailUnlink

SpecFaults == InitSteps /\ [][NextFaults]_vars

(***************************************************************************)
(* Properties of the engine, checked under Spec.                           *)
(***************************************************************************)
Wrote == last.op \in {"set", "remove"} /\ last.ret = RetOk

\* C1: last write wins.  In every state the engine reaches by set, remove,
\* get and reopen (roll-overs and compactions included), get(k) returns the
\* value of the most recent set(k, _) not followed by a successful remove(k),
\* and None if there is none; and that is what a get that ran returned.
LastWriteWins ==
    status = "ok" =>
       /\ View(KV) = latest
       /\ last.op = "get" => last.ret = latest[last.key]

\* Reached: a get that returned a value from the compacted file while another
\* key had been removed.
LastWriteWinsWitness ==
    /\ last.op = "get"
    /\ last.ret.kind = "Some"
    /\ index[last.key].file_idx = 0
    /\ immutable_files[1].path.compacted
    /\ \E k \in Keys : latest[k] = GetNone

\* C2: restart equivalence.  When a running engine is shut down cleanly and
\* the directory is opened again, the open succeeds and get returns for every
\* key what it returned just before the shutdown.
RestartEquivalence ==
    last.op = "reopen" => last.ret = RetOk /\ last.after = last.before

\* Reached: a reopen over a directory that holds a compacted file, a
\* rolled-over file and an active file, with a live and a removed key.
RestartEquivalenceWitness ==
    /\ last.op = "reopen"
    /\ Len(immutable_files) = 2
    /\ immutable_files[1].path.compacted
    /\ active_file.len > 0
    /\ \E k \in Keys : last.after[k].kind = "Some"
    /\ \E k \in Keys : last.after[k].kind = "None"

\* C3: compaction preserves semantics.  What get yields for every key is the
\* same immediately before and immediately after a compaction run.
CompactionPreservesGet ==
    (last.op \in {"set", "remove"} /\ last.compacted) => last.after = last.before

\* Reached: a compaction that moved the records of two live keys.
CompactionPreservesGetWitness ==
    /\ last.op = "set"
    /\ last.compacted
    /\ \A k \in Keys : last.after[k].kind = "Some" /\ index[k].file_idx = 0

\* C4: index invariant.  After open and after every set, get or remove, every
\* key in the index resolves to a record that decodes as Set(key, _) for that
\* same key.
ResolvesToOwnSet(kv, k) ==
    /\ ReadAt(kv, kv.index[k]).kind = "Some"
    /\ ReadAt(kv, kv.index[k]).cmd.tag = "Set"
    /\ ReadAt(kv, kv.index[k]).cmd.key = k

IndexInvariant ==
    status = "ok" => \A k \in DOMAIN index : ResolvesToOwnSet(KV, k)

\* Reached: a successful remove that left the other key in the index, in an
\* immutable file.
IndexInvariantWitness ==
    /\ last.op = "remove"
    /\ last.ret = RetOk
    /\ \E k \in DOMAIN index : index[k].file_idx # ACTIVE_FILE_IDX

\* C5: post-compaction shape.  When the write in which a compaction ran
\* returns, the immutable list is the compacted file alone, every index entry
\* not in the active file is in slot 0, and the dead count is 0.
PostCompactionShape ==
    (Wrote /\ last.compacted) =>
       /\ Len(immutable_files) = 1
       /\ immutable_files[1].path.compacted
       /\ \A k \in DOMAIN index :
             index[k].file_idx # ACTIVE_FILE_IDX => index[k].file_idx = 0
       /\ dead_data_count = 0

\* Reached: after a compaction, one key in the active file and one in slot 0.
PostCompactionShapeWitness ==
    /\ Wrote
    /\ last.compacted
    /\ \E k \in DOMAIN index : index[k].file_idx = ACTIVE_FILE_IDX
    /\ \E k \in DOMAIN index : index[k].file_idx = 0

\* C6: remove of a key whose get is None fails with "Key not found" and
\* changes nothing: files, index, immutable list, dead count and clock keep
\* their values (no record, no roll-over, no compaction).
RemoveAbsentWritesNothing ==
    [][\A k \in Keys :
          (last'.op = "remove" /\ last'.key = k /\ Get(KV, k) = GetNone)
             => /\ last'.ret = RetKeyNotFound
                /\ ~last'.rolled /\ ~last'.compacted
                /\ UNCHANGED engine]_vars

\* Reached: a remove that failed with "Key not found" on an engine that holds
\* records.
RemoveAbsentWitness ==
    /\ last.op = "remove"
    /\ last.ret = RetKeyNotFound
    /\ active_file.len > 0
    /\ dead_data_count > 0

\* C7: roll-over timing.  The write whose append takes the active file past
\* FILE_SIZE_LIMIT rolls it over, so when a successful set or remove returns
\* the active file is no longer than FILE_SIZE_LIMIT.
RollOverTiming ==
    (status = "ok" /\ Wrote) => active_file.len <= FILE_SIZE_LIMIT

\* C8: under MaxFiles(N), N >= 1, when a set or remove returns (and after a
\* reopen) the directory holds at most N immutable files plus the active
\* file, exactly the compacted file right after a compaction, and every key
\* resolves to its last written value.
MaxFilesBound ==
    (compaction_policy.kind = "MaxFiles" /\ status = "ok") =>
       /\ Len(immutable_files) <= compaction_policy.param
       /\ DOMAIN disk = PathsOf(immutable_files) \cup {active_file.path}
       /\ Cardinality(DOMAIN disk) <= compaction_policy.param + 1
       /\ (Wrote /\ last.rolled /\ last.compacted) =>
             Len(immutable_files) = 1 /\ immutable_files[1].path.compacted
       /\ View(KV) = latest

\* Reached: under MaxFiles(N), a write whose roll-over fired the compaction.
MaxFilesBoundWitness ==
    /\ compaction_policy.kind = "MaxFiles"
    /\ Wrote
    /\ last.rolled
    /\ last.compacted
    /\ \E k \in Keys : latest[k].kind = "Some"

(***************************************************************************)
(* Properties of the codec, checked under SpecCodec.                       *)
(***************************************************************************)
\* The value of a big-endian digit vector (Horner's rule).
RECURSIVE BeValue(_)
BeValue(d) ==
    IF Len(d) = 0 THEN 0 ELSE BeValue(SubSeq(d, 1, Len(d) - 1)) * 256 + d[Len(d)]

\* C9: record round-trip.  For every record r (Set, Get or Rm; UTF-8 key and
\* value), parse_header + parse_body on the bytes Cmd::write produced for r
\* succeed and yield r.
RecordRoundTrip ==
    codec.stage = "parsed" => codec.parsed.ok /\ codec.parsed.cmd = codec.cmd

\* Reached: the round trip of a Set with a long key and a non-empty value.
RecordRoundTripWitness ==
    /\ codec.stage = "parsed"
    /\ codec.cmd.tag = "Set"
    /\ Len(codec.cmd.key) = LongLen
    /\ Len(codec.cmd.value) = 2

KeyLenField(b) == SubSeq(b, 1, HEADER_KEY_BYTES)
ValueLenField(b) == SubSeq(b, HEADER_KEY_BYTES + 1, HEADER_BYTES)
AllOnes == <<255, 255, 255, 255, 255, 255, 255, 255>>
AllOnesLessOne == <<255, 255, 255, 255, 255, 255, 255, 254>>

\* C10: wire / disk layout.  Cmd::write emits a 12-byte header (key length,
\* big-endian u32; value length, big-endian u64), then the key bytes and, for
\* Set only, the value bytes; the value-length field is 2^64-1 for Get and
\* 2^64-2 for Rm; on decode any other value-length is the byte length of a
\* Set value; the returned count is the number of bytes emitted, 12 + key
\* length (+ value length for Set).
WireLayout ==
    codec.stage \in {"written", "parsed"} =>
       /\ Len(codec.bytes) = codec.n
       /\ codec.n = 12 + Len(codec.cmd.key)
                      + (IF codec.cmd.tag = "Set" THEN Len(codec.cmd.value) ELSE 0)
       /\ BeValue(KeyLenField(codec.bytes)) = Len(codec.cmd.key)
       /\ SubSeq(codec.bytes, 13, 12 + Len(codec.cmd.key)) = codec.cmd.key
       /\ codec.cmd.tag = "Set" =>
             /\ BeValue(ValueLenField(codec.bytes)) = Len(codec.cmd.value)
             /\ SubSeq(codec.bytes, 13 + Len(codec.cmd.key), Len(codec.bytes))
                  = codec.cmd.value
       /\ codec.cmd.tag = "Get" => ValueLenField(codec.bytes) = AllOnes
       /\ codec.cmd.tag = "Rm" => ValueLenField(codec.bytes) = AllOnesLessOne
       /\ codec.stage = "parsed" =>
             /\ codec.parsed.ok
             /\ codec.parsed.cmd.tag = "Set"
                  <=> ValueLenField(codec.bytes) \notin {AllOnes, AllOnesLessOne}
             /\ codec.parsed.cmd.tag = "Set" =>
                  Len(codec.parsed.cmd.value) = BeValue(ValueLenField(codec.bytes))

\* Reached: a Get with a key longer than 255 bytes, written and parsed.
WireLayoutWitness ==
    /\ codec.stage = "parsed"
    /\ codec.cmd.tag = "Get"
    /\ Len(codec.cmd.key) = LongLen

(***************************************************************************)
(* Properties of the reader, checked under SpecFramer.                     *)
(***************************************************************************)
\* 12 + key length + value length on disk (0 for Get and Rm).
OnDiskLen(cmd) ==
    12 + Len(cmd.key) + (IF cmd.tag = "Set" THEN Len(cmd.value) ELSE 0)

RECURSIVE SumLen(_, _)
SumLen(recs, n) == IF n = 0 THEN 0 ELSE SumLen(recs, n - 1) + OnDiskLen(recs[n])

\* The number of bytes taken from the source so far.
Consumed == SumLen(framer.recs, Len(framer.recs)) - Len(framer.src)

\* C11: framer accounting.  On a source that holds a concatenation of encoded
\* records, the successive read_cmd calls return the records in order, each
\* with bytes_read = 12 + key length + on-disk value length, then None; each
\* call takes exactly its record's bytes from the source, and while a call is
\* reading, whatever the sizes of the reads, it has taken no byte past the
\* record it is reading.
FramerAccounting ==
    (framer.whole /\ ~framer.io) =>
       /\ Len(framer.results) <= Len(framer.recs) + 1
       /\ \A i \in DOMAIN framer.results :
             framer.results[i] =
                IF i <= Len(framer.recs)
                THEN ReadSome(framer.recs[i], OnDiskLen(framer.recs[i]))
                ELSE ReadNone
       /\ framer.stage \in {"idle", "stopped"} =>
             Consumed = SumLen(framer.recs, Min(Len(framer.results), Len(framer.recs)))
       /\ framer.stage \in {"header", "cmd"} =>
             /\ Consumed >= SumLen(framer.recs, Len(framer.results))
             /\ Consumed <= SumLen(framer.recs,
                                   Min(Len(framer.results) + 1, Len(framer.recs)))
       /\ framer.stage = "stopped" => Len(framer.results) = Len(framer.recs) + 1

\* Reached: two records and the final None read from a source that handed
\* out fewer bytes than asked for.
FramerAccountingWitness ==
    /\ framer.whole
    /\ ~framer.io
    /\ framer.short
    /\ Len(framer.recs) >= 2
    /\ framer.stage = "stopped"
    /\ Len(framer.results) = Len(framer.recs) + 1
    /\ framer.results[1].kind = "Some"

\* A source that ends inside a record: some bytes, but fewer than the header
\* or fewer than the header and the body it announces.
MidRecord(a) ==
    /\ Len(a) > 0
    /\ \/ Len(a) < HEADER_BYTES
       \/ Len(a) < HEADER_BYTES + ExpectedLen(ParseHeader(Take(a, HEADER_BYTES)))

\* C12: framer end-of-input handling.  read_cmd returns None only when the
\* source was at its end before any header byte was read, and returns an
\* error (not None, not a record, not a panic) when the source ends after at
\* least one byte of a record but before its full header or full body.
FramerEofIsError ==
    (framer.stage \in {"idle", "stopped"} /\ Len(framer.results) > 0 /\ ~framer.io) =>
       /\ framer.results[Len(framer.results)].kind = "None" => Len(framer.at_call) = 0
       /\ MidRecord(framer.at_call) => framer.results[Len(framer.results)].kind = "Err"

(***************************************************************************)
(* Properties of the response codec, checked under SpecWire.               *)
(***************************************************************************)
\* C13: response round-trip.  For every Response (SuccessfulSet,
\* SuccessfulRm, SuccessfulGet(v) with v empty or not, KeyNotFound, Err(msg)),
\* from_bytes on the bytes Response::write produced returns the same value.
ResponseRoundTrip ==
    (wire.stage = "parsed" /\ ~wire.given) => wire.parsed = wire.response

\* Reached: the round trip of a SuccessfulGet whose value starts with 's',
\* and that of the empty value.
ResponseRoundTripWitness ==
    /\ wire.stage = "parsed"
    /\ ~wire.given
    /\ wire.response.tag = "SuccessfulGet"
    /\ \/ wire.response.payload = <<>>
       \/ Len(wire.response.payload) > 1
          /\ wire.response.payload[1] = SUCCESSFUL_SET_BYTE

TagBytes ==
    {SUCCESSFUL_SET_BYTE, SUCCESSFUL_RM_BYTE, SUCCESSFUL_GET_BYTE, NOT_FOUND_BYTE,
     ERROR_BYTE}

\* C14: from_bytes is total.  On bytes that are not valid UTF-8 it returns
\* Err("Invalid utf8"); on valid UTF-8 that is empty or starts with none of
\* s, r, g, n, e it returns Err("Invalid start byte"); on every input it
\* returns one of the five variants.
FromBytesTotal ==
    wire.stage = "parsed" =>
       /\ wire.parsed.tag \in
             {"SuccessfulSet", "SuccessfulRm", "SuccessfulGet", "KeyNotFound", "Err"}
       /\ ~IsUtf8(wire.bytes) => wire.parsed = Err(InvalidUtf8)
       /\ (IsUtf8(wire.bytes) /\ (wire.bytes = <<>> \/ wire.bytes[1] \notin TagBytes))
             => wire.parsed = Err(InvalidStartByte)

\* Reached: bytes that start with 's' and are not UTF-8.
FromBytesTotalWitness ==
    /\ wire.stage = "parsed"
    /\ wire.given
    /\ Len(wire.bytes) > 1
    /\ wire.bytes[1] = SUCCESSFUL_SET_BYTE
    /\ ~IsUtf8(wire.bytes)

(***************************************************************************)
(* Properties of the server and the clients, checked under SpecNet.        *)
(***************************************************************************)
\* The server is about to write the response to a command it handled.
Responding == net.server.status = "running" /\ net.server.pc = "write"

\* C15: for Remove(k) of a key absent from the store, the response the
\* server writes is KeyNotFound (the byte n), not Err.
RemoveAbsentIsKeyNotFound ==
    (Responding /\ net.server.from = "cmd" /\ net.server.cmd.tag = "Rm"
       /\ last.op = "remove" /\ last.ret = RetKeyNotFound)
       => net.server.out = ResponseWrite(KeyNotFound)

\* C16: for a connection that delivered no bytes, or a request the reader
\* rejected, the server writes the byte e followed by the message ("Response
\* had no data" for no bytes), which from_bytes decodes as Err with that
\* message.
RefusalIsErrResponse ==
    (Responding /\ net.server.from \in {"empty", "rejected"}) =>
       /\ net.server.out = <<ERROR_BYTE>> \o net.server.text
       /\ FromBytes(net.server.out) = Err(net.server.text)
       /\ net.server.from = "empty" => net.server.text = ResponseHadNoData

\* C17: nothing but a failing accept ends Server::run; after a failure on one
\* connection the server is still running.
OnlyAcceptStopsServer ==
    net.server.status = "stopped" => net.server.cause = "accept"

InService == {i \in DOMAIN net.conns : net.conns[i].state = "accepted"}

\* What a get of key k answers when the requests so far are applied one at a
\* time in the order they were accepted.
SequentialGet(k) ==
    IF latest[k] = GetNone THEN KeyNotFound ELSE SuccessfulGet(latest[k].value)

\* C18: requests are serialized.  However the clients connect, at most one
\* connection is in service; connections are served to the end in the order
\* they were accepted; and the response to a get is the value of the last set
\* of that key served before it (KeyNotFound if it was removed or never set).
RequestsSerialized ==
    /\ Cardinality(InService) <= 1
    /\ (net.server.status = "running" /\ net.server.pc # "accept")
          => InService = {net.server.cur}
    /\ (net.server.status = "running" /\ net.server.pc = "accept") => InService = {}
    /\ net.accepted = [i \in 1..Len(net.accepted) |-> i]
    /\ \A i, j \in DOMAIN net.conns :
          (i < j /\ net.conns[j].state \in {"accepted", "closed"})
             => net.conns[i].state = "closed"
    /\ (Responding /\ net.server.from = "cmd" /\ net.server.cmd.tag = "Get")
          => net.server.out = ResponseWrite(SequentialGet(net.server.cmd.key))

\* Reached: both clients wait for a response, one connection in the queue,
\* and the server answers a get with the value a set of another connection
\* wrote.
RequestsSerializedWitness ==
    /\ Responding
    /\ net.server.from = "cmd"
    /\ net.server.cmd.tag = "Get"
    /\ latest[net.server.cmd.key].kind = "Some"
    /\ net.backlog # <<>>
    /\ \A c \in Clients : net.clients[c].pc = "wait"

\* The client's command has returned a decoded response.
Decoded(c) == net.clients[c].pc = "idle" /\ net.clients[c].connected

\* C19: the outcome of each command of a Client is decoded from exactly the
\* bytes the server sent on that command's connection.
ClientDecodesOwnResponse ==
    \A c \in Clients :
       Decoded(c) =>
          net.clients[c].decoded = FromBytes(net.conns[net.clients[c].conn].resp)

\* C20: client outcome mapping.  set is Ok iff the decoded response is
\* SuccessfulSet; get is Ok(Some(v)) iff it is SuccessfulGet(v), Ok(None) iff
\* it is KeyNotFound, Err otherwise; rm is Ok iff it is SuccessfulRm, Err for
\* KeyNotFound and every other variant.
ClientOutcomeMapping ==
    \A c \in Clients :
       Decoded(c) =>
          /\ net.clients[c].cmd.tag = "Set" =>
                /\ net.clients[c].outcome \in {OutOk, OutErr}
                /\ net.clients[c].outcome = OutOk
                     <=> net.clients[c].decoded = SuccessfulSet
          /\ net.clients[c].cmd.tag = "Get" =>
                /\ net.clients[c].outcome.kind \in {"Some", "None", "Err"}
                /\ net.clients[c].outcome.kind = "Some"
                     <=> net.clients[c].decoded.tag = "SuccessfulGet"
                /\ net.clients[c].outcome.kind = "Some"
                     => net.clients[c].outcome.value = net.clients[c].decoded.payload
                /\ net.clients[c].outcome = OutNone
                     <=> net.clients[c].decoded = KeyNotFound
          /\ net.clients[c].cmd.tag = "Rm" =>
                /\ net.clients[c].outcome \in {OutOk, OutErr}
                /\ net.clients[c].outcome = OutOk
                     <=> net.clients[c].decoded = SuccessfulRm

\* Reached: an rm that returned Err on a decoded KeyNotFound.
ClientOutcomeMappingWitness ==
    \E c \in Clients :
       /\ Decoded(c)
       /\ net.clients[c].cmd.tag = "Rm"
       /\ net.clients[c].decoded = KeyNotFound
       /\ net.clients[c].outcome = OutErr

(***************************************************************************)
(* Properties of the compaction policies, checked under SpecPolicy.        *)
(***************************************************************************)
\* C26: compaction policy predicates.  MaxFilePolicy with parameter N answers
\* true exactly when open_immutable_files > N (default N = 8);
\* MaxDeadRecordPolicy with parameter M answers true exactly when
\* dead_commands > M (default M = 1024); NeverPolicy answers false for every
\* context.
PolicyPredicates ==
    query.stage = "answered" =>
       /\ query.policy.kind = "MaxFiles" =>
             (query.answer <=> query.context.open_immutable_files > query.policy.param)
       /\ query.policy.kind = "MaxDeadRecords" =>
             (query.answer <=> query.context.dead_commands > query.policy.param)
       /\ query.policy = NeverPolicy => ~query.answer
       /\ query.policy = MaxFilePolicyDefault =>
             (query.answer <=> query.context.open_immutable_files > 8)
       /\ query.policy = MaxDeadRecordPolicyDefault =>
             (query.answer <=> query.context.dead_commands > 1024)

\* Reached: the default MaxFilePolicy asked at 9 files with no dead record
\* says yes.
PolicyPredicatesWitness ==
    /\ query.stage = "answered"
    /\ query.policy = MaxFilePolicyDefault
    /\ query.context.open_immutable_files = DEFAULT_MAX_FILES + 1
    /\ query.context.dead_commands = 0
    /\ query.answer

(***************************************************************************)
(* Properties of the engine selection, checked under SpecSelect.           *)
(***************************************************************************)
HasSledFile(d) == \E p \in DOMAIN d : IsSledFile(p)
HasKvsFile(d) == \E p \in DOMAIN d : IsKvsFile(p)
Fails(outcome) == outcome.result \notin {"Ok", "called"}

\* C21: engine selection.  If the directory holds conf or db, opening with
\* engine kvs fails; if it holds a file with the suffix .pingcap, opening
\* with engine sled fails; if it holds neither and no engine is requested,
\* the kvs engine is opened; and the outcome is the same for every order in
\* which the entries are enumerated.
SelectionByContent ==
    boot.stage = "done" =>
       /\ (HasSledFile(boot.dir) /\ boot.engine = "Kvs") => Fails(boot.outcome)
       /\ (HasKvsFile(boot.dir) /\ boot.engine = "Sled") => Fails(boot.outcome)
       /\ (~HasSledFile(boot.dir) /\ ~HasKvsFile(boot.dir) /\ boot.engine = "None")
             => boot.outcome.engine = "Kvs"
       /\ \A entries \in Enumerations(boot.dir) :
             NewIn(boot.engine, boot.dir, entries) = boot.outcome

(***************************************************************************)
(* Properties of open over a directory found on disk, checked under        *)
(* SpecOpen.                                                               *)
(***************************************************************************)
\* The directory without the files that bear neither the suffix nor a
\* marker name.
Unrelated(p) == ~IsKvsFile(p) /\ ~IsSledFile(p)
WithoutUnrelated(d) == [p \in {q \in DOMAIN d : ~Unrelated(q)} |-> d[p]]

\* The open that ran ended as the open `other` does, with the same store.
SameStore(other) ==
    /\ status = OpenStatus(other)
    /\ status = "ok" =>
          /\ index = other.index
          /\ active_file = other.active_file
          /\ immutable_files = other.immutable_files

\* C22: files that bear neither the engine suffix nor a marker name are
\* ignored by open: the active file, the immutable list and the index are
\* those that open yields on the same directory without them.
UnrelatedFilesIgnored ==
    last.op = "open" => SameStore(OpenDir(WithoutUnrelated(disk), clock))

\* The records of a log, as long as they parse.
RECURSIVE RecordsOf(_)
RecordsNext(r, bytes) ==
    IF r.kind # "Some" THEN <<>>
    ELSE <<r.cmd>> \o RecordsOf(Drop(bytes, r.bytes_read))
RecordsOf(bytes) == RecordsNext(ReadCmd(bytes), bytes)

HoldsGet(bytes) == \E i \in DOMAIN RecordsOf(bytes) : RecordsOf(bytes)[i].tag = "Get"

\* C23: Get records are rejected on replay: opening a directory in which a
\* log file holds a Get record returns an error value (CorruptLog) and no
\* store.
GetOnReplayIsError ==
    (last.op = "open" /\ \E p \in DOMAIN disk : ~IsForeign(p) /\ HoldsGet(disk[p]))
       => status = "open_failed" /\ last.ret = GetErr

(***************************************************************************)
(* Properties of write_cmd and compactify step by step, checked under      *)
(* SpecSteps.                                                              *)
(***************************************************************************)
\* The steps a whole write_cmd call c is to take, in order.
StepsOf(c) ==
    <<"append", "index">>
      \o (IF RollOverDue(c.file_offset) THEN <<"roll">> ELSE <<>>)
      \o <<"query">>
      \o (IF c.answer THEN <<"compact">> ELSE <<>>)

StartsWith(s, t) == Len(t) <= Len(s) /\ t = Take(s, Len(t))
Took(c, step) == \E i \in DOMAIN c.trace : c.trace[i] = step
Writing(c) == c.op \in {"set", "remove"} /\ c.ret = RetOk
Grew(b) == IF b THEN 1 ELSE 0

\* What the policy is to be shown by the call c: the immutable count after
\* the roll-over, the dead count after the index update.
ContextOf(c) ==
    [open_immutable_files |->
        Len(c.kv0.immutable_files) + Grew(RollOverDue(c.file_offset)),
     dead_commands |-> c.kv0.dead_data_count + Grew(CountsDead(c.kv0, c.cmd.key))]

\* C27: a set or a successful remove takes its steps in the order append,
\* index update, roll-over if due, one policy query, compaction iff the query
\* said so, all of them before it returns; the query shows the immutable
\* count after the roll-over and the current dead count; a get and a remove
\* of an absent key take none of these steps and leave the engine as it was.
WriteStepOrder ==
    /\ Writing(call) =>
          /\ StartsWith(StepsOf(call), call.trace)
          /\ call.pc \in {"idle", "return"} => call.trace = StepsOf(call)
          /\ Took(call, "query") => call.context = ContextOf(call)
          /\ Took(call, "query") => call.rolled = RollOverDue(call.file_offset)
          /\ Took(call, "compact") => call.answer
    /\ (call.op = "get" \/ (call.op = "remove" /\ call.ret # RetOk)) =>
          call.trace = <<>> /\ Snapshot(KV) = call.kv0

\* A remove returned after a roll-over and a compaction.
WriteStepOrderWitness ==
    /\ call.pc = "idle"
    /\ call.op = "remove"
    /\ call.trace = <<"append", "index", "roll", "query", "compact">>

\* The index entry e of before the roll-over, as it is to be afterwards.
Rolled(e, last_slot) ==
    IF e.file_idx = ACTIVE_FILE_IDX THEN Index(last_slot, e.file_offset) ELSE e

\* C28: right after a roll-over the immutable list is the former list with
\* the former active file added at its end, the active file is a new empty
\* file, every index entry that carried the active-file sentinel designates
\* the last immutable slot at the same offset, every other entry is as it
\* was, and no entry carries the sentinel.
RollOverEffect ==
    (call.pc = "query" /\ call.rolled) =>
        /\ immutable_files = Append(call.pre_roll.immutable_files, call.pre_roll.active_file)
        /\ active_file.path \notin DOMAIN call.pre_roll.disk
        /\ active_file.len = 0
        /\ disk[active_file.path] = <<>>
        /\ \A p \in DOMAIN call.pre_roll.disk : disk[p] = call.pre_roll.disk[p]
        /\ DOMAIN index = DOMAIN call.pre_roll.index
        /\ \A k \in DOMAIN index :
              /\ index[k] = Rolled(call.pre_roll.index[k], Len(immutable_files) - 1)
              /\ index[k].file_idx # ACTIVE_FILE_IDX

\* A roll-over that found an entry of the active file and an entry of an
\* immutable file.
RollOverEffectWitness ==
    /\ call.pc = "query"
    /\ call.rolled
    /\ \E k1, k2 \in DOMAIN call.pre_roll.index :
          /\ call.pre_roll.index[k1].file_idx = ACTIVE_FILE_IDX
          /\ call.pre_roll.index[k2].file_idx # ACTIVE_FILE_IDX

\* The steps of a call after its index update at which no compaction has
\* reset the count yet.
CountStands(c) ==
    Took(c, "index") /\ c.pc \in {"roll", "query", "compact", "copy", "unlink"}

HadImmutableEntry(c) ==
    /\ c.cmd.key \in DOMAIN c.kv0.index
    /\ c.kv0.index[c.cmd.key].file_idx >= 0

\* C30: from the index update of a set until a compaction resets it, the
\* dead count is the count of before the set plus one if the key had an
\* entry in an immutable file, and the count of before the set if the key
\* was absent or its entry was in the active file.
DeadCountOnSet ==
    (call.op = "set" /\ CountStands(call)) =>
        dead_data_count = call.kv0.dead_data_count + Grew(HadImmutableEntry(call))

\* A set of a key whose entry was in an immutable file, while other dead
\* records were already counted.
DeadCountOnSetWitness ==
    /\ call.op = "set"
    /\ CountStands(call)
    /\ HadImmutableEntry(call)
    /\ call.kv0.dead_data_count > 0
    /\ dead_data_count = call.kv0.dead_data_count + 1

\* C29: every record a compaction has appended to the compacted file is a
\* Set record of a key in the index; no Rm and no Get record is copied, also
\* when a remove whose write rolled the active file over set the compaction
\* off.
CompactionCopiesOnlySets ==
    \A i \in DOMAIN call.copied :
        /\ call.copied[i].tag = "Set"
        /\ call.pc \in {"copy", "unlink"} => call.copied[i].key \in DOMAIN index

\* C24: when the process stopped with only a proper prefix of a record
\* appended to the active file, the open that follows succeeds and every
\* key reads as it did before the call that was appending: the partial
\* record is lost and is no error.
TailTruncationTolerated ==
    (call.op = "recover" /\ call.stopped_at = "partial") =>
        /\ status = "ok"
        /\ DOMAIN index = DOMAIN call.kv0.index
        /\ \A k \in Keys : Get(KV, k) = Get(call.kv0, k)

\* The immutable files the compaction of call c started with.
ToUnlink(c) == Len(c.kv0.immutable_files) + Grew(c.rolled)

ImmutablesKept ==
    \A i \in DOMAIN immutable_files :
        immutable_files[i].path \in DOMAIN disk =>
            IF immutable_files[i].path \in DOMAIN disk'
            THEN disk'[immutable_files[i].path] = disk[immutable_files[i].path]
            ELSE call.pc = "unlink" /\ call'.pc = "unlink"

\* A file that is in the directory before and after this step and is neither
\* the active file nor the compacted file being written has not changed.
OthersKept ==
    \A p \in DOMAIN disk \cap DOMAIN disk' :
        disk'[p] # disk[p] =>
            \/ p = active_file.path
            \/ p = call.compacted_file.path /\ call.pc = "copy"

\* The files the call c found and the directory d still holds are as c found
\* them, but for the file that was active, which holds one record more.
OneRecordAppended(c, d) ==
    \A p \in DOMAIN c.kv0.disk \cap DOMAIN d :
        d[p] = IF p = c.kv0.active_file.path
               THEN c.kv0.disk[p] \o CmdWrite(c.cmd).bytes
               ELSE c.kv0.disk[p]

Returns == call.pc = "return" /\ call'.pc = "idle"

\* C32: no step changes the contents of a file of the immutable list; such
\* a file leaves the directory only in compactify's unlink loop; and a set
\* or remove that returns has appended exactly its one record, to the file
\* that was active when it started, and changed no other file it found.
OnlyActiveAppended ==
    [][ImmutablesKept /\ OthersKept /\ (Returns => OneRecordAppended(call', disk'))]_vars

\* A set or remove returned after a roll-over without compaction, with
\* files already in the immutable list when it started.
OnlyActiveAppendedWitness ==
    /\ call.pc = "idle"
    /\ Writing(call)
    /\ call.rolled
    /\ ~call.answer
    /\ call.kv0.immutable_files # <<>>

(***************************************************************************)
(* Properties of compaction over many keys, checked under SpecManyKeys.    *)
(***************************************************************************)
RECURSIVE TotalLen(_)
TotalLen(files) == IF files = <<>> THEN 0 ELSE Head(files).len + TotalLen(Tail(files))

\* C31: a compaction leaves a compacted file strictly shorter than the
\* immutable files it replaces were together.
CompactionShrinks ==
    (call # Idle /\ call.fired) => TotalLen(immutable_files) < TotalLen(call.replaced)

(***************************************************************************)
(* Properties of Cmd::parse_body, checked under SpecBody.                  *)
(***************************************************************************)
IsSetHeader(q) == q.value_len \notin {GET_VALUE_LEN, RM_VALUE_LEN}

ShortOfKey(q) == BeGreater(q.key_len, Len(q.bytes))
ShortOfValue(q) ==
    IsSetHeader(q) /\ BeGreater(q.value_len, Len(q.bytes) - BeInt(q.key_len))

KeyOf(q) == SubSeq(q.bytes, 1, BeInt(q.key_len))
ValueOf(q) ==
    SubSeq(q.bytes, BeInt(q.key_len) + 1, BeInt(q.key_len) + BeInt(q.value_len))

\* The bytes a body of these lengths is made of.
UsedLen(q) == BeInt(q.key_len) + (IF IsSetHeader(q) THEN BeInt(q.value_len) ELSE 0)

NotUtf8(q) == ~IsUtf8(KeyOf(q)) \/ (IsSetHeader(q) /\ ~IsUtf8(ValueOf(q)))

CmdOf(q) ==
    IF q.value_len = GET_VALUE_LEN THEN CmdGet(KeyOf(q))
    ELSE IF q.value_len = RM_VALUE_LEN THEN CmdRm(KeyOf(q))
    ELSE CmdSet(KeyOf(q), ValueOf(q))

\* C33: parse_body fails exactly when the bytes are fewer than key_len, or,
\* under a Set header, fewer than key_len + value_len, or the key's or the
\* value's bytes are not UTF-8; otherwise it yields the record made of the
\* first key_len (+ value_len) bytes, whatever follows them.
BodyLengthCheck ==
    query.stage = "parsed" =>
        IF ShortOfKey(query) \/ ShortOfValue(query) \/ NotUtf8(query)
        THEN ~query.parsed.ok
        ELSE /\ query.parsed = ParseOk(CmdOf(query))
             /\ query.parsed =
                   ParseBody(query.key_len, query.value_len,
                             Take(query.bytes, UsedLen(query)))

\* A Set with a value parsed from bytes that go on after it.
BodyLengthCheckWitness ==
    /\ query.stage = "parsed"
    /\ query.parsed.ok
    /\ query.parsed.cmd.tag = "Set"
    /\ query.parsed.cmd.value # <<>>
    /\ Len(query.bytes) > UsedLen(query)

(***************************************************************************)
(* Properties of get and the active file's handle, checked under           *)
(* SpecHandle.                                                             *)
(***************************************************************************)
\* The engine the call recorded in q would have left had no get moved the
\* handle before it.
Undisturbed(q) ==
    IF q.did = "set"
    THEN WriteCmd(q.before, compaction_policy, q.cmd, OrderOf(BeforePolicy(q.before, q.cmd), q.order))
    ELSE Removed(WriteCmd(q.before, compaction_policy, q.cmd,
                          OrderOf(BeforePolicy(q.before, q.cmd), q.order)),
                 q.cmd.key)

\* C38: a get, of a present or an absent key, leaves the index, the
\* immutable list, every file and cached length, the dead count and the set
\* of files as they were; and the record a set or remove appends after it
\* starts where it would have started without the get.
GetIsReadOnly ==
    /\ query.did = "get" => KV = query.before
    /\ query.did \in {"set", "remove"} => KV = Undisturbed(query)

\* A set right after a get that left the handle short of the end of the
\* active file.
GetIsReadOnlyWitness ==
    /\ query.did = "set"
    /\ query.prev = "get"
    /\ query.at < query.before.active_file.len

(***************************************************************************)
(* Properties of the engine at rest between operations, checked under      *)
(* SpecSteps: no I/O step fails there; a process may stop and be reopened.  *)
(***************************************************************************)
AtRest == status = "ok" /\ call.pc = "idle"

\* Index.file_idx is the sentinel or a slot of the immutable list.
SlotInBounds(e) ==
    \/ e.file_idx = ACTIVE_FILE_IDX
    \/ e.file_idx \in 0..(Len(immutable_files) - 1)

\* The file the entry e names, as read_cmd would seek in it.
FileOfEntry(e) ==
    IF e.file_idx = ACTIVE_FILE_IDX THEN active_file
    ELSE immutable_files[e.file_idx + 1]

OffsetInBounds(e) ==
    /\ FileOfEntry(e).path \in DOMAIN disk
    /\ e.file_offset < Len(disk[FileOfEntry(e).path])
    /\ e.file_offset < FileOfEntry(e).len

\* C35: between public operations every index entry names the sentinel or an
\* existing slot of the immutable list, and its offset lies strictly inside
\* the file it names.
IndexInBounds ==
    AtRest =>
        \A k \in DOMAIN index : SlotInBounds(index[k]) /\ OffsetInBounds(index[k])

\* An entry of the last of two immutable files, past that file's first
\* record.
IndexInBoundsWitness ==
    /\ AtRest
    /\ Len(immutable_files) >= 2
    /\ \E k \in DOMAIN index :
          /\ index[k].file_idx = Len(immutable_files) - 1
          /\ index[k].file_offset > 0

InCompactify == call.pc \in {"compact", "copy", "unlink"}

\* C37: whenever there are dead records counted the immutable list is not
\* empty, and whenever the policy has said yes and compactify runs there is
\* an immutable file for it to replace.
CompactionHasInput ==
    /\ dead_data_count > 0 => immutable_files # << >>
    /\ (status = "ok" /\ Took(call, "query") /\ call.answer) =>
          call.context.open_immutable_files >= 1
    /\ (status = "ok" /\ InCompactify) => immutable_files # << >>

\* A process reopened over a directory with dead records, and a compaction
\* under way.
CompactionHasInputWitness ==
    /\ status = "ok"
    /\ InCompactify
    /\ call.answer
    /\ dead_data_count > 0
    /\ Len(immutable_files) >= 1

(***************************************************************************)
(* Properties of the engine after a failed I/O step, checked under         *)
(* SpecFaults.                                                             *)
(***************************************************************************)
\* The entry of key k leads read_cmd to a Set record of k.
Resolves(k) ==
    /\ ReadAt(KV, index[k]).kind = "Some"
    /\ ReadAt(KV, index[k]).cmd.tag = "Set"
    /\ ReadAt(KV, index[k]).cmd.key = k

\* C34: when set or remove has returned Err because an I/O step failed, every
\* index entry still resolves to a Set record of its own key, and no later
\* get panics.
ErrorAtomicity ==
    /\ (status = "ok" /\ call.op \in {"set", "remove"} /\ IoFailed(call)) =>
          \A k \in DOMAIN index : Resolves(k)
    /\ call.op = "get" => call.ret # GetPanic

\* C36: between operations the cached length of the active file is the
\* number of bytes in the file, also after an append that failed part-way.
ActiveLenIsFileLen ==
    (status = "ok" /\ call.pc = "idle") =>
        active_file.len = Len(disk[active_file.path])

(***************************************************************************)
(* Progress of the server, checked under SpecNetLive.                      *)
(***************************************************************************)
Replied(i) ==
    /\ net.conns[i].state = "closed"
    /\ net.conns[i].resp # <<>>
    /\ Accepting(net.server)

\* C39: with no socket operation failing and every peer in the end sending
\* its request or closing its write half, every accepted connection in the
\* end has a response written to it and is closed, with the server back at
\* accept.
ServerProgress ==
    \A i \in 1..MaxConns :
        (i \in DOMAIN net.conns /\ net.conns[i].state = "accepted")
            ~> (i \in DOMAIN net.conns /\ Replied(i))

=============================================================================
